---- MODULE Spec2Model ----
(***************************************************************************)
(* Model of billSherlock's asynchronous job pipeline (src/main.py):         *)
(* bill-parse jobs, report-archive jobs, the two admission gates, the       *)
(* dedup/insert step, zip extraction and the report storage tree.           *)
(*                                                                          *)
(* Scheduling model.  Coroutines run on one asyncio event loop: a coroutine *)
(* keeps the loop from the moment it is resumed until its next await that   *)
(* suspends (a blocked semaphore acquire, asyncio.to_thread).  The variable *)
(* loop names the coroutine that holds the loop.  Work handed to            *)
(* asyncio.to_thread and the synchronous endpoints (FastAPI runs "def"      *)
(* endpoints in a thread pool) run concurrently with the loop, so status    *)
(* pollers can see the registry between any two registry writes: every      *)
(* registry write is a step of its own.                                     *)
(***************************************************************************)
EXTENDS Integers, Sequences, FiniteSets, TLC

(* ---------------------------------------------------------------- bounds *)
MaxJobs == 3          \* uploads accepted in a run, bill and report together
MaxFiles == 3         \* files uploaded in a run, over all bill uploads
MaxBatchLen == 2      \* records in one parsed batch (dedup/insert step)
MaxEntries == 2       \* members of a zip archive
MaxLogEntries == 2    \* entries of the report access log
MaxCells == 2         \* cells of a table row in the header scan
MaxPages == 2         \* pages of a PDF document
MaxTables == 2        \* tables on a PDF page
MaxAmount == 5        \* largest amount of a source cell, in cents
MaxLines == 5         \* lines of the text of a PDF page
MaxIdLen == 5         \* characters of an id cell of a spreadsheet row
MaxConcurrency == 2   \* largest configured width of the bill gate above its default

(* ------------------------------------------------------ program constants *)
BillGateWidth == 1
ReportGateWidth == 2

None == "None"
(* the locals of a coroutine that has ended *)
NoLocals == [ended |-> TRUE]
NoPath == <<>>        \* Suspect.report_path IS NULL
Idle == <<"idle", 0>>

Subjects == {1, 2}
UploadSubjects == {1}   \* the subjects that uploads are made for
TxIds == {"a", "b"}
FileNames == <<"f1.pdf", "f2.pdf", "f3.pdf", "f4.pdf", "f5.pdf">>

VARIABLES
    suspects,     \* ids of the rows of table suspects
    reportPath,   \* Suspect.report_path per subject (NoPath or a report root)
    txns,         \* table transactions: number of rows per <<suspect_id, transaction_id>>
    loop,         \* the coroutine holding the event loop, or Idle
    billJobs,     \* BILL_UPLOAD_JOBS: job id -> job record
    billPc,       \* position of each bill worker coroutine
    billCtx,      \* locals of each bill worker: suspect_id, stored_files, idx, results
    billSem,      \* free permits of BILL_UPLOAD_SEMAPHORE
    jobDir,       \* per-job temporary directory: [exists, files]
    auditFiles,   \* audit files on disk: file name -> payload
    reportJobs,   \* REPORT_UPLOAD_JOBS: job id -> job record
    reportPc,     \* position of each report worker coroutine
    reportCtx,    \* locals of each report worker
    reportSem,    \* free permits of REPORT_UPLOAD_SEMAPHORE
    trees,        \* report version directories on disk under REPORTS_DIR
    accessLog,    \* report_access.json: set of logged report roots
    lastInsert,   \* the last call of _insert_transactions_for_suspect and its result
    zip,          \* a run of _safe_extract_zip: [pc, members, idx, written]
    sweep,        \* a run of _cleanup_stale_reports
    dispatch,     \* a call of parse_bill_file: [pc, path, route, opened, outcome]
    hdr,          \* a header scan of one PDF table: [pc, table, header_index, bill_type]
    pdf,          \* a run of the page loop of parse_pdf_bill
    amt,          \* the amount of the last record emitted: [path, src, amount]
    dt,           \* a call of parse_datetime: [pc, input, text, result]
    txt,          \* a run of the line scan of _parse_wechat_text_page
    sheet         \* a data row of parse_excel_bill: [pc, bill_type, id, time, tid, emitted]

vars == <<suspects, reportPath, txns, loop, billJobs, billPc, billCtx, billSem,
          jobDir, auditFiles, reportJobs, reportPc, reportCtx, reportSem, trees,
          accessLog, lastInsert, zip, sweep, dispatch, hdr, pdf, amt, dt, txt, sheet>>

dbVars == <<suspects, reportPath, txns>>
billVars == <<billJobs, billPc, billCtx, billSem, jobDir, auditFiles>>
reportVars == <<reportJobs, reportPc, reportCtx, reportSem, trees, accessLog>>
extVars == <<sweep, dispatch, hdr, pdf, amt, dt, txt, sheet>>
toolVars == <<lastInsert, zip, extVars>>

(* ------------------------------------------------------------ helpers *)
Range(f) == {f[i] : i \in DOMAIN f}

SeqsUpTo(S, n) == UNION {[1..k -> S] : k \in 0..n}

CountIn(seq, x) == Cardinality({i \in DOMAIN seq : seq[i] = x})

(* _set_bill_job / _set_report_job: merge the patch over the current record *)
SetJob(reg, j, patch) ==
    IF j \in DOMAIN reg THEN [reg EXCEPT ![j] = patch @@ reg[j]]
    ELSE (j :> patch) @@ reg

(* _get_bill_job / _get_report_job: a copy of the record, None when absent *)
GetJob(reg, j) == IF j \in DOMAIN reg THEN reg[j] ELSE None

(* the 404 of the status endpoints *)
JobNotFound == [status_code |-> 404, detail |-> "job not found"]

(* GET /api/bill/upload_status and GET /api/report/upload_status: the job  *)
(* record, or 404 when the registry has none for the id                    *)
UploadStatus(reg, job_id) ==
    IF job_id \in DOMAIN reg THEN GetJob(reg, job_id) ELSE JobNotFound

(* ------------------------------------------------- dedup / insert step *)
(* A parsed record is modelled by its transaction_id; "" is a record with *)
(* no id.                                                                  *)
NoId == ""

TxIdList(data) == SelectSeq(data, LAMBDA t : t # NoId)

Existing(db, s, data) == {t \in Range(TxIdList(data)) : db[<<s, t>>] > 0}

ToInsert(db, s, data) ==
    SelectSeq(data, LAMBDA t : t # NoId /\ t \notin Existing(db, s, data))

InsertedCount(db, s, data) == Len(ToInsert(db, s, data))

InsertTransactions(db, s, data) ==
    [k \in DOMAIN db |->
        IF k[1] = s THEN db[k] + CountIn(ToInsert(db, s, data), k[2]) ELSE db[k]]

(* the persisted transaction ids of a subject *)
PersistedIds(db, s) == {t \in TxIds : db[<<s, t>>] > 0}

(* no call of _insert_transactions_for_suspect has been made yet *)
NoCall == [suspect_id |-> 0, data |-> <<>>, prior |-> {}, inserted_count |-> 0]

(* one call of _insert_transactions_for_suspect on a parsed batch *)
InsertBatch(s, data) ==
    /\ txns' = InsertTransactions(txns, s, data)
    /\ lastInsert' = [suspect_id |-> s, data |-> data,
                      prior |-> PersistedIds(txns, s),
                      inserted_count |-> InsertedCount(txns, s, data)]
    /\ UNCHANGED <<suspects, reportPath, loop, billVars, reportVars, zip, extVars>>

(* ------------------------------------------------------- bill uploads *)
BillTask(j) == <<"bill", j>>

AuditName(s, j) == <<"bill_upload_result", s, j>>

(* _write_bill_job_result: the record is written under the audit file name *)
WriteBillJobResult(files, j, s, job) == (AuditName(s, j) :> job) @@ files

RECURSIVE SumOver(_, _)
SumOver(f, S) ==
    IF S = {} THEN 0
    ELSE LET x == CHOOSE y \in S : TRUE IN f[x] + SumOver(f, S \ {x})

JobsAccepted == Cardinality(DOMAIN billJobs) + Cardinality(DOMAIN reportJobs)

FilesUploaded ==
    SumOver([j \in DOMAIN billJobs |-> billJobs[j].total_files], DOMAIN billJobs)

(* the files of an upload: n files, named in upload order *)
UploadNames(n) == SubSeq(FileNames, 1, n)

(* what the parser can return for a file that is on disk *)
FileBatches == {<<"a">>}

(* POST /upload that leaves the registry entry to the worker *)
UploadFileUnregistered(s, names) ==
    LET j == Cardinality(DOMAIN billPc) + 1 IN
    /\ loop = Idle
    /\ s \in suspects
    /\ JobsAccepted < MaxJobs
    /\ names # <<>>
    /\ FilesUploaded + Len(names) <= MaxFiles
    /\ jobDir' = (j :> [exists |-> TRUE, files |-> Range(names)]) @@ jobDir
    /\ billPc' = (j :> "created") @@ billPc
    /\ billCtx' = (j :> [suspect_id |-> s, stored_files |-> names,
                         idx |-> 0, results |-> <<>>]) @@ billCtx
    /\ UNCHANGED <<dbVars, loop, billJobs, billSem, auditFiles, reportVars, toolVars>>

(* POST /upload *)
UploadFile(s, names) ==
    LET j == Cardinality(DOMAIN billJobs) + 1 IN
    /\ loop = Idle
    /\ s \in suspects
    /\ JobsAccepted < MaxJobs
    /\ names # <<>>
    /\ FilesUploaded + Len(names) <= MaxFiles
    /\ jobDir' = (j :> [exists |-> TRUE, files |-> Range(names)]) @@ jobDir
    /\ billJobs' = SetJob(billJobs, j,
                     [status |-> "queued", suspect_id |-> s,
                      total_files |-> Len(names), current_file_index |-> 0,
                      current_filename |-> None, results |-> <<>>])
    /\ billPc' = (j :> "created") @@ billPc
    /\ billCtx' = (j :> [suspect_id |-> s, stored_files |-> names,
                         idx |-> 0, results |-> <<>>]) @@ billCtx
    /\ UNCHANGED <<dbVars, loop, billSem, auditFiles, reportVars, toolVars>>

(* line 151: the task starts and re-states "queued" *)
BillStart(j) ==
    /\ loop = Idle
    /\ billPc[j] = "created"
    /\ billJobs' = SetJob(billJobs, j, [status |-> "queued"])
    /\ billPc' = [billPc EXCEPT ![j] = "acquire"]
    /\ loop' = BillTask(j)
    /\ UNCHANGED <<dbVars, billCtx, billSem, jobDir, auditFiles, reportVars, toolVars>>

(* line 152: a free permit is taken at once, else the coroutine suspends *)
BillAcquire(j) ==
    /\ loop = BillTask(j)
    /\ billPc[j] = "acquire"
    /\ IF billSem > 0
       THEN /\ billSem' = billSem - 1
            /\ billPc' = [billPc EXCEPT ![j] = "admitted"]
            /\ UNCHANGED loop
       ELSE /\ billPc' = [billPc EXCEPT ![j] = "waiting"]
            /\ loop' = Idle
            /\ UNCHANGED billSem
    /\ UNCHANGED <<dbVars, billJobs, billCtx, jobDir, auditFiles, reportVars, toolVars>>

(* BillWake that needs two free permits *)
BillWakeNeedsTwo(j) ==
    /\ loop = Idle
    /\ billPc[j] = "waiting"
    /\ billSem > 1
    /\ billSem' = billSem - 1
    /\ billPc' = [billPc EXCEPT ![j] = "admitted"]
    /\ loop' = BillTask(j)
    /\ UNCHANGED <<dbVars, billJobs, billCtx, jobDir, auditFiles, reportVars, toolVars>>

(* line 152: a waiter is woken by a release and takes the permit *)
BillWake(j) ==
    /\ loop = Idle
    /\ billPc[j] = "waiting"
    /\ billSem > 0
    /\ billSem' = billSem - 1
    /\ billPc' = [billPc EXCEPT ![j] = "admitted"]
    /\ loop' = BillTask(j)
    /\ UNCHANGED <<dbVars, billJobs, billCtx, jobDir, auditFiles, reportVars, toolVars>>

(* BillSetProcessing without its registry write *)
BillSetProcessingSilent(j) ==
    /\ loop = BillTask(j)
    /\ billPc[j] = "admitted"
    /\ billPc' = [billPc EXCEPT ![j] = "query"]
    /\ UNCHANGED <<dbVars, loop, billJobs, billCtx, billSem, jobDir, auditFiles,
                   reportVars, toolVars>>

(* line 154 *)
BillSetProcessing(j) ==
    /\ loop = BillTask(j)
    /\ billPc[j] = "admitted"
    /\ billJobs' = SetJob(billJobs, j, [status |-> "processing"])
    /\ billPc' = [billPc EXCEPT ![j] = "query"]
    /\ UNCHANGED <<dbVars, loop, billCtx, billSem, jobDir, auditFiles, reportVars, toolVars>>

(* lines 155-158: open the session and look the subject up; the database *)
(* call may raise                                                         *)
BillQuerySuspect(j) ==
    /\ loop = BillTask(j)
    /\ billPc[j] = "query"
    /\ \E raised \in BOOLEAN :
         billPc' = [billPc EXCEPT ![j] =
                      IF raised THEN "except"
                      ELSE IF billCtx[j].suspect_id \notin suspects THEN "missing"
                      ELSE "file_loop"]
    /\ UNCHANGED <<dbVars, loop, billJobs, billCtx, billSem, jobDir, auditFiles,
                   reportVars, toolVars>>

(* BillSubjectMissing that returns past the release of the gate *)
BillSubjectMissingNoRelease(j) ==
    /\ loop = BillTask(j)
    /\ billPc[j] = "missing"
    /\ billJobs' = SetJob(billJobs, j,
                     [status |-> "error", detail |-> "Suspect not found"])
    /\ billPc' = [billPc EXCEPT ![j] = "deleting"]
    /\ loop' = Idle
    /\ UNCHANGED <<dbVars, billCtx, billSem, jobDir, auditFiles, reportVars, toolVars>>

(* lines 159-160: subject missing: status error, return *)
BillSubjectMissing(j) ==
    /\ loop = BillTask(j)
    /\ billPc[j] = "missing"
    /\ billJobs' = SetJob(billJobs, j,
                     [status |-> "error", detail |-> "Suspect not found"])
    /\ billPc' = [billPc EXCEPT ![j] = "finally"]
    /\ UNCHANGED <<dbVars, loop, billCtx, billSem, jobDir, auditFiles, reportVars, toolVars>>

(* lines 162-175: next file: publish the progress fields and hand the file *)
(* to the parser thread; after the last file go on to "done"              *)
BillFileLoop(j) ==
    LET c == billCtx[j] IN
    /\ loop = BillTask(j)
    /\ billPc[j] = "file_loop"
    /\ IF c.idx < Len(c.stored_files)
       THEN /\ billJobs' = SetJob(billJobs, j,
                             [current_filename |-> c.stored_files[c.idx + 1],
                              current_file_index |-> c.idx + 1,
                              total_files |-> Len(c.stored_files)])
            /\ billPc' = [billPc EXCEPT ![j] = "parsing"]
            /\ loop' = Idle
       ELSE /\ billPc' = [billPc EXCEPT ![j] = "set_done"]
            /\ UNCHANGED <<billJobs, loop>>
    /\ UNCHANGED <<dbVars, billCtx, billSem, jobDir, auditFiles, reportVars, toolVars>>

(* BillParseInsert that inserts without looking for persisted ids *)
BillParseInsertUnchecked(j, data) ==
    LET c == billCtx[j]
        name == c.stored_files[c.idx + 1]
        s == c.suspect_id
    IN
    /\ loop = Idle
    /\ billPc[j] = "parsing"
    /\ loop' = BillTask(j)
    /\ \/ /\ billPc' = [billPc EXCEPT ![j] = "file_except"]
          /\ UNCHANGED <<txns, billCtx>>
       \/ /\ jobDir[j].exists /\ name \in jobDir[j].files
          /\ txns' = [k \in DOMAIN txns |->
                        IF k[1] = s THEN txns[k] + CountIn(TxIdList(data), k[2]) ELSE txns[k]]
          /\ billCtx' = [billCtx EXCEPT ![j].results =
                           Append(@, [filename |-> name,
                                      parsed_count |-> Len(data),
                                      inserted_count |-> Len(TxIdList(data))])]
          /\ billPc' = [billPc EXCEPT ![j] = "file_finally"]
    /\ UNCHANGED <<suspects, reportPath, billJobs, billSem, jobDir, auditFiles,
                   reportVars, toolVars>>

(* lines 178-204: the parser thread returns or raises (it always raises    *)
(* when the file is no longer on disk); the records are inserted, which    *)
(* may raise too, and the file's result is appended                        *)
BillParseInsert(j, data) ==
    LET c == billCtx[j]
        name == c.stored_files[c.idx + 1]
        s == c.suspect_id
    IN
    /\ loop = Idle
    /\ billPc[j] = "parsing"
    /\ loop' = BillTask(j)
    /\ \/ /\ billPc' = [billPc EXCEPT ![j] = "file_except"]
          /\ UNCHANGED <<txns, billCtx>>
       \/ /\ jobDir[j].exists /\ name \in jobDir[j].files
          /\ txns' = InsertTransactions(txns, s, data)
          /\ billCtx' = [billCtx EXCEPT ![j].results =
                           Append(@, [filename |-> name,
                                      parsed_count |-> Len(data),
                                      inserted_count |-> InsertedCount(txns, s, data)])]
          /\ billPc' = [billPc EXCEPT ![j] = "file_finally"]
    /\ UNCHANGED <<suspects, reportPath, billJobs, billSem, jobDir, auditFiles,
                   reportVars, toolVars>>

(* BillFileExcept where a failing file ends the file loop *)
BillFileExceptAbort(j) ==
    LET c == billCtx[j]
        name == c.stored_files[c.idx + 1]
    IN
    /\ loop = BillTask(j)
    /\ billPc[j] = "file_except"
    /\ billCtx' = [billCtx EXCEPT ![j].results =
                     Append(@, [filename |-> name, error |-> "failed"])]
    /\ billPc' = [billPc EXCEPT ![j] = "set_done"]
    /\ jobDir' = [jobDir EXCEPT ![j].files = @ \ {name}]
    /\ UNCHANGED <<dbVars, loop, billJobs, billSem, auditFiles, reportVars, toolVars>>

(* lines 205-213: a failing file: roll back and record {filename, error}; *)
(* when the rollback itself raises the job-level handler takes over, and  *)
(* the file's finally clause has removed the file either way              *)
BillFileExcept(j) ==
    LET c == billCtx[j]
        name == c.stored_files[c.idx + 1]
    IN
    /\ loop = BillTask(j)
    /\ billPc[j] = "file_except"
    /\ \/ /\ billCtx' = [billCtx EXCEPT ![j].results =
                           Append(@, [filename |-> name, error |-> "failed"])]
          /\ billPc' = [billPc EXCEPT ![j] = "file_finally"]
          /\ UNCHANGED jobDir
       \/ /\ billPc' = [billPc EXCEPT ![j] = "except"]
          /\ jobDir' = [jobDir EXCEPT ![j].files = @ \ {name}]
          /\ UNCHANGED billCtx
    /\ UNCHANGED <<dbVars, loop, billJobs, billSem, auditFiles, reportVars, toolVars>>

(* BillFileFinally that does not publish the results *)
BillFileFinallyNoPublish(j) ==
    LET c == billCtx[j]
        name == c.stored_files[c.idx + 1]
    IN
    /\ loop = BillTask(j)
    /\ billPc[j] = "file_finally"
    /\ jobDir' = [jobDir EXCEPT ![j].files = @ \ {name}]
    /\ billCtx' = [billCtx EXCEPT ![j].idx = @ + 1]
    /\ billPc' = [billPc EXCEPT ![j] = "file_loop"]
    /\ UNCHANGED <<dbVars, loop, billJobs, billSem, auditFiles, reportVars, toolVars>>

(* lines 208-215: remove the file, publish the results so far *)
BillFileFinally(j) ==
    LET c == billCtx[j]
        name == c.stored_files[c.idx + 1]
    IN
    /\ loop = BillTask(j)
    /\ billPc[j] = "file_finally"
    /\ jobDir' = [jobDir EXCEPT ![j].files = @ \ {name}]
    /\ billJobs' = SetJob(billJobs, j, [results |-> c.results])
    /\ billCtx' = [billCtx EXCEPT ![j].idx = @ + 1]
    /\ billPc' = [billPc EXCEPT ![j] = "file_loop"]
    /\ UNCHANGED <<dbVars, loop, billSem, auditFiles, reportVars, toolVars>>

(* lines 217-224 *)
BillSetDone(j) ==
    /\ loop = BillTask(j)
    /\ billPc[j] = "set_done"
    /\ billJobs' = SetJob(billJobs, j,
                     [status |-> "done", results |-> billCtx[j].results])
    /\ billPc' = [billPc EXCEPT ![j] = "audit"]
    /\ UNCHANGED <<dbVars, loop, billCtx, billSem, jobDir, auditFiles, reportVars, toolVars>>

(* lines 233-234: the job-level handler *)
BillExcept(j) ==
    /\ loop = BillTask(j)
    /\ billPc[j] = "except"
    /\ billJobs' = SetJob(billJobs, j, [status |-> "error", detail |-> "exception"])
    /\ billPc' = [billPc EXCEPT ![j] = "audit"]
    /\ UNCHANGED <<dbVars, loop, billCtx, billSem, jobDir, auditFiles, reportVars, toolVars>>

(* lines 225-230 and 235-240: flush the record, then note the file name *)
BillWriteResult(j) ==
    LET s == billCtx[j].suspect_id
        final_job == GetJob(billJobs, j)
    IN
    /\ loop = BillTask(j)
    /\ billPc[j] = "audit"
    /\ auditFiles' = WriteBillJobResult(auditFiles, j, s, final_job)
    /\ billJobs' = SetJob(billJobs, j, [output_file |-> AuditName(s, j)])
    /\ billPc' = [billPc EXCEPT ![j] = "finally"]
    /\ UNCHANGED <<dbVars, loop, billCtx, billSem, jobDir, reportVars, toolVars>>

(* BillFinally where a job in error returns before the directory is deleted *)
BillFinallyNoCleanup(j) ==
    LET failed == billJobs[j].status = "error" IN
    /\ loop = BillTask(j)
    /\ billPc[j] = "finally"
    /\ billSem' = billSem + 1
    /\ billPc' = [billPc EXCEPT ![j] = IF failed THEN "finished" ELSE "deleting"]
    /\ billCtx' = IF failed THEN [billCtx EXCEPT ![j] = NoLocals] ELSE billCtx
    /\ loop' = Idle
    /\ UNCHANGED <<dbVars, billJobs, jobDir, auditFiles, reportVars, toolVars>>

(* lines 231-232, 241-244: close the session, release the gate, hand the   *)
(* temporary directory to the deleting thread                              *)
BillFinally(j) ==
    /\ loop = BillTask(j)
    /\ billPc[j] = "finally"
    /\ billSem' = billSem + 1
    /\ billPc' = [billPc EXCEPT ![j] = "deleting"]
    /\ loop' = Idle
    /\ UNCHANGED <<dbVars, billJobs, billCtx, jobDir, auditFiles, reportVars, toolVars>>

(* _delete_tree on the job directory *)
DeleteTree(dir) == [exists |-> FALSE, files |-> {}]

(* line 244: the directory is deleted and the worker ends *)
BillDeleteJobDir(j) ==
    /\ loop = Idle
    /\ billPc[j] = "deleting"
    /\ jobDir' = [jobDir EXCEPT ![j] = DeleteTree(@)]
    /\ billPc' = [billPc EXCEPT ![j] = "finished"]
    /\ billCtx' = [billCtx EXCEPT ![j] = NoLocals]
    /\ UNCHANGED <<dbVars, loop, billJobs, billSem, auditFiles, reportVars, toolVars>>

(* DELETE /suspects/{id}: the subject's transactions and its row go *)
DeleteSuspect(s) ==
    /\ s \in suspects
    /\ suspects' = suspects \ {s}
    /\ txns' = [k \in DOMAIN txns |-> IF k[1] = s THEN 0 ELSE txns[k]]
    /\ reportPath' = [reportPath EXCEPT ![s] = NoPath]
    /\ UNCHANGED <<loop, billVars, reportVars, toolVars>>

(* ------------------------------------------------------ report uploads *)
(* Paths are sequences of components below the working directory.          *)
REPORTS_DIR == <<"forensic_reports">>

SubjectDir == [s \in Subjects |-> IF s = 1 THEN "1" ELSE "2"]

VersionNames == <<"v1", "v2", "v3", "v4", "v5">>

IsPrefix(p, q) == Len(p) <= Len(q) /\ SubSeq(q, 1, Len(p)) = p

(* _is_within_reports_dir that also accepts REPORTS_DIR itself *)
IsWithinReportsDirOrRoot(path) == IsPrefix(REPORTS_DIR, path)

(* _is_within_reports_dir: strictly below REPORTS_DIR *)
IsWithinReportsDir(path) == Len(path) > Len(REPORTS_DIR) /\ IsPrefix(REPORTS_DIR, path)

(* _get_report_container_dir: REPORTS_DIR/<subject>/<version> of a root *)
GetReportContainerDir(path) ==
    IF ~IsWithinReportsDir(path) THEN path
    ELSE IF Len(path) - Len(REPORTS_DIR) >= 2
         THEN SubSeq(path, 1, Len(REPORTS_DIR) + 2)
         ELSE path

(* _delete_tree on the report storage: the directory and all below it go *)
DeleteReportTree(disk, path) ==
    [d \in {x \in DOMAIN disk : ~IsPrefix(path, x)} |-> disk[d]]

ReportTask(j) == <<"report", j>>

ArchiveKinds == {"good", "invalid", "nohtml"}

(* POST /api/report/upload: the archive is stored in a fresh version      *)
(* directory, the job is registered and its worker task created           *)
UploadReport(s, kind) ==
    LET j == Cardinality(DOMAIN reportJobs) + 1
        work_dir == REPORTS_DIR \o <<SubjectDir[s], VersionNames[j]>>
    IN
    /\ loop = Idle
    /\ s \in suspects
    /\ JobsAccepted < MaxJobs
    /\ trees' = (work_dir :> {"archive"}) @@ trees
    /\ reportJobs' = SetJob(reportJobs, j, [status |-> "queued", suspect_id |-> s])
    /\ reportPc' = (j :> "created") @@ reportPc
    /\ reportCtx' = (j :> [suspect_id |-> s, work_dir |-> work_dir, kind |-> kind,
                           report_path |-> NoPath]) @@ reportCtx
    /\ UNCHANGED <<dbVars, loop, billVars, reportSem, accessLog, toolVars>>

(* line 1280 *)
ReportStart(j) ==
    /\ loop = Idle
    /\ reportPc[j] = "created"
    /\ reportJobs' = SetJob(reportJobs, j, [status |-> "queued"])
    /\ reportPc' = [reportPc EXCEPT ![j] = "acquire"]
    /\ loop' = ReportTask(j)
    /\ UNCHANGED <<dbVars, billVars, reportCtx, reportSem, trees, accessLog, toolVars>>

(* ReportAcquire on a gate shared with the bill jobs *)
ReportAcquireSharedGate(j) ==
    /\ loop = ReportTask(j)
    /\ reportPc[j] = "acquire"
    /\ IF reportSem > 0 /\ billSem > 0
       THEN /\ reportSem' = reportSem - 1
            /\ reportPc' = [reportPc EXCEPT ![j] = "admitted"]
            /\ UNCHANGED loop
       ELSE /\ reportPc' = [reportPc EXCEPT ![j] = "waiting"]
            /\ loop' = Idle
            /\ UNCHANGED reportSem
    /\ UNCHANGED <<dbVars, billVars, reportJobs, reportCtx, trees, accessLog, toolVars>>

(* line 1281: a free permit is taken at once, else the coroutine suspends *)
ReportAcquire(j) ==
    /\ loop = ReportTask(j)
    /\ reportPc[j] = "acquire"
    /\ IF reportSem > 0
       THEN /\ reportSem' = reportSem - 1
            /\ reportPc' = [reportPc EXCEPT ![j] = "admitted"]
            /\ UNCHANGED loop
       ELSE /\ reportPc' = [reportPc EXCEPT ![j] = "waiting"]
            /\ loop' = Idle
            /\ UNCHANGED reportSem
    /\ UNCHANGED <<dbVars, billVars, reportJobs, reportCtx, trees, accessLog, toolVars>>

(* ReportWake without its test of the free permits *)
ReportWakeUngated(j) ==
    /\ loop = Idle
    /\ reportPc[j] = "waiting"
    /\ reportSem' = reportSem - 1
    /\ reportPc' = [reportPc EXCEPT ![j] = "admitted"]
    /\ loop' = ReportTask(j)
    /\ UNCHANGED <<dbVars, billVars, reportJobs, reportCtx, trees, accessLog, toolVars>>

(* line 1281: a waiter is woken by a release and takes the permit *)
ReportWake(j) ==
    /\ loop = Idle
    /\ reportPc[j] = "waiting"
    /\ reportSem > 0
    /\ reportSem' = reportSem - 1
    /\ reportPc' = [reportPc EXCEPT ![j] = "admitted"]
    /\ loop' = ReportTask(j)
    /\ UNCHANGED <<dbVars, billVars, reportJobs, reportCtx, trees, accessLog, toolVars>>

(* line 1283 *)
ReportSetProcessing(j) ==
    /\ loop = ReportTask(j)
    /\ reportPc[j] = "admitted"
    /\ reportJobs' = SetJob(reportJobs, j, [status |-> "processing"])
    /\ reportPc' = [reportPc EXCEPT ![j] = "query"]
    /\ UNCHANGED <<dbVars, loop, billVars, reportCtx, reportSem, trees, accessLog, toolVars>>

(* lines 1284-1291: the subject row is loaded into the worker's session   *)
(* (its report_path as of now stays in the session), then the archive is  *)
(* handed to the extracting thread; the database call may raise           *)
ReportQuerySuspect(j) ==
    LET s == reportCtx[j].suspect_id IN
    /\ loop = ReportTask(j)
    /\ reportPc[j] = "query"
    /\ \/ /\ reportPc' = [reportPc EXCEPT ![j] = "except"]
          /\ UNCHANGED <<loop, reportCtx>>
       \/ /\ s \notin suspects
          /\ reportPc' = [reportPc EXCEPT ![j] = "missing"]
          /\ UNCHANGED <<loop, reportCtx>>
       \/ /\ s \in suspects
          /\ reportCtx' = [reportCtx EXCEPT ![j].report_path = reportPath[s]]
          /\ reportPc' = [reportPc EXCEPT ![j] = "extracting"]
          /\ loop' = Idle
    /\ UNCHANGED <<dbVars, billVars, reportJobs, reportSem, trees, accessLog, toolVars>>

(* lines 1288-1289 *)
ReportSubjectMissing(j) ==
    /\ loop = ReportTask(j)
    /\ reportPc[j] = "missing"
    /\ reportJobs' = SetJob(reportJobs, j,
                       [status |-> "error", detail |-> "Suspect not found"])
    /\ reportPc' = [reportPc EXCEPT ![j] = "finally"]
    /\ UNCHANGED <<dbVars, loop, billVars, reportCtx, reportSem, trees, accessLog, toolVars>>

(* line 1291: _extract_archive in a thread: an invalid archive is refused *)
(* with an HTTPException and nothing written, any other failure is an     *)
(* Exception; then line 1292 hands the archive to the deleting thread     *)
ReportExtract(j) ==
    LET c == reportCtx[j] IN
    /\ loop = Idle
    /\ reportPc[j] = "extracting"
    /\ \/ /\ c.kind = "invalid"
          /\ reportPc' = [reportPc EXCEPT ![j] = "http_except"]
          /\ loop' = ReportTask(j)
          /\ UNCHANGED trees
       \/ /\ reportPc' = [reportPc EXCEPT ![j] = "except"]
          /\ loop' = ReportTask(j)
          /\ UNCHANGED trees
       \/ /\ c.kind # "invalid"
          /\ c.work_dir \in DOMAIN trees
          /\ trees' = [trees EXCEPT ![c.work_dir] =
                         @ \cup (IF c.kind = "good" THEN {"html"} ELSE {"other"})]
          /\ reportPc' = [reportPc EXCEPT ![j] = "rm_archive"]
          /\ UNCHANGED loop
    /\ UNCHANGED <<dbVars, billVars, reportJobs, reportCtx, reportSem, accessLog, toolVars>>

(* lines 1292-1295: the archive is deleted, the report root and the main  *)
(* HTML file are looked for; no HTML file is an HTTPException             *)
ReportLocate(j) ==
    LET c == reportCtx[j] IN
    /\ loop = Idle
    /\ reportPc[j] = "rm_archive"
    /\ trees' = IF c.work_dir \in DOMAIN trees
                THEN [trees EXCEPT ![c.work_dir] = @ \ {"archive"}]
                ELSE trees
    /\ reportPc' = [reportPc EXCEPT ![j] =
                      IF c.work_dir \in DOMAIN trees /\ "html" \in trees[c.work_dir]
                      THEN "commit" ELSE "http_except"]
    /\ loop' = ReportTask(j)
    /\ UNCHANGED <<dbVars, billVars, reportJobs, reportCtx, reportSem, accessLog, toolVars>>

(* lines 1297-1302: the new root is committed as the subject's report     *)
(* path; the commit raises when it fails or the row is gone.  The old     *)
(* root is the one the session loaded                                     *)
ReportCommit(j) ==
    LET c == reportCtx[j]
        s == c.suspect_id
        old_report_root == c.report_path
        report_root == c.work_dir
    IN
    /\ loop = ReportTask(j)
    /\ reportPc[j] = "commit"
    /\ \/ /\ reportPc' = [reportPc EXCEPT ![j] = "except"]
          /\ UNCHANGED <<reportPath, loop>>
       \/ /\ s \in suspects
          /\ reportPath' = [reportPath EXCEPT ![s] = report_root]
          /\ reportPc' = [reportPc EXCEPT ![j] =
                IF /\ old_report_root # NoPath
                   /\ old_report_root # report_root
                   /\ IsWithinReportsDir(old_report_root)
                THEN "rm_old_access" ELSE "update_access"]
          /\ loop' = Idle
    /\ UNCHANGED <<suspects, txns, billVars, reportJobs, reportCtx, reportSem,
                   trees, accessLog, toolVars>>

(* line 1303: _remove_report_access in a thread; writing the log may raise *)
ReportRemoveOldAccess(j) ==
    /\ loop = Idle
    /\ reportPc[j] = "rm_old_access"
    /\ \/ /\ reportPc' = [reportPc EXCEPT ![j] = "except"]
          /\ loop' = ReportTask(j)
          /\ UNCHANGED accessLog
       \/ /\ accessLog' = accessLog \ {reportCtx[j].report_path}
          /\ reportPc' = [reportPc EXCEPT ![j] = "rm_old_tree"]
          /\ UNCHANGED loop
    /\ UNCHANGED <<dbVars, billVars, reportJobs, reportCtx, reportSem, trees, toolVars>>

(* lines 1304-1305: the old version's container directory is deleted *)
ReportDeleteOldTree(j) ==
    /\ loop = Idle
    /\ reportPc[j] = "rm_old_tree"
    /\ trees' = DeleteReportTree(trees, GetReportContainerDir(reportCtx[j].report_path))
    /\ reportPc' = [reportPc EXCEPT ![j] = "update_access"]
    /\ UNCHANGED <<dbVars, loop, billVars, reportJobs, reportCtx, reportSem, accessLog, toolVars>>

(* line 1307: _update_report_access in a thread; writing the log may raise *)
ReportUpdateAccess(j) ==
    /\ loop = Idle
    /\ reportPc[j] = "update_access"
    /\ loop' = ReportTask(j)
    /\ \/ /\ reportPc' = [reportPc EXCEPT ![j] = "except"]
          /\ UNCHANGED accessLog
       \/ /\ accessLog' = accessLog \cup {reportCtx[j].work_dir}
          /\ reportPc' = [reportPc EXCEPT ![j] = "set_done"]
    /\ UNCHANGED <<dbVars, billVars, reportJobs, reportCtx, reportSem, trees, toolVars>>

(* lines 1309-1316 *)
ReportSetDone(j) ==
    /\ loop = ReportTask(j)
    /\ reportPc[j] = "set_done"
    /\ reportJobs' = SetJob(reportJobs, j, [status |-> "done", filename |-> "main.html"])
    /\ reportPc' = [reportPc EXCEPT ![j] = "finally"]
    /\ UNCHANGED <<dbVars, loop, billVars, reportCtx, reportSem, trees, accessLog, toolVars>>

(* lines 1319-1328 and 1329-1338: both handlers set "error" with a detail *)
(* and hand the work directory to the deleting thread                     *)
ReportExcept(j) ==
    /\ loop = ReportTask(j)
    /\ reportPc[j] \in {"http_except", "except"}
    /\ reportJobs' = SetJob(reportJobs, j,
                       [status |-> "error",
                        detail |-> IF reportPc[j] = "http_except"
                                   THEN "rejected" ELSE "exception"])
    /\ reportPc' = [reportPc EXCEPT ![j] = "rm_work_dir"]
    /\ loop' = Idle
    /\ UNCHANGED <<dbVars, billVars, reportCtx, reportSem, trees, accessLog, toolVars>>

(* lines 1328, 1338: _delete_tree(work_dir) in a thread *)
ReportDeleteWorkDir(j) ==
    /\ loop = Idle
    /\ reportPc[j] = "rm_work_dir"
    /\ trees' = DeleteReportTree(trees, reportCtx[j].work_dir)
    /\ reportPc' = [reportPc EXCEPT ![j] = "finally"]
    /\ loop' = ReportTask(j)
    /\ UNCHANGED <<dbVars, billVars, reportJobs, reportCtx, reportSem, accessLog, toolVars>>

(* lines 1317-1318, 1339-1340: close the session, release the gate *)
ReportFinally(j) ==
    /\ loop = ReportTask(j)
    /\ reportPc[j] = "finally"
    /\ reportSem' = reportSem + 1
    /\ reportPc' = [reportPc EXCEPT ![j] = "finished"]
    /\ reportCtx' = [reportCtx EXCEPT ![j] = NoLocals]
    /\ loop' = Idle
    /\ UNCHANGED <<dbVars, billVars, reportJobs, trees, accessLog, toolVars>>

(* _cleanup_stale_reports (lines 287-328) on the report storage, run as a *)
(* background task of POST /suspects: `stale` are the logged roots whose  *)
(* last access is older than the threshold by now.  Roots outside the     *)
(* tree or missing on disk leave the log, the stale ones leave the log    *)
(* and their version directories are deleted; no row of table suspects is *)
(* read or written                                                        *)
RECURSIVE DeleteAll(_, _)
DeleteAll(disk, targets) ==
    IF targets = {} THEN disk
    ELSE LET t == CHOOSE x \in targets : TRUE IN
         DeleteAll(DeleteReportTree(disk, t), targets \ {t})

CleanupStaleReports(stale) ==
    LET present == {r \in accessLog : IsWithinReportsDir(r) /\ r \in DOMAIN trees}
        to_delete == present \cap stale
        delete_targets == {GetReportContainerDir(r) : r \in to_delete}
    IN
    /\ stale \subseteq accessLog
    /\ accessLog' = present \ stale
    /\ trees' = DeleteAll(trees, {t \in delete_targets : IsWithinReportsDir(t)})
    /\ UNCHANGED <<dbVars, loop, billVars, reportJobs, reportPc, reportCtx, reportSem, toolVars>>

(* ------------------------------------------------------ zip extraction *)
(* A member name is [abs, parts]: absolute or relative, and its path      *)
(* components; ".." is the parent directory and "." the directory itself  *)
DestDir == REPORTS_DIR \o <<"1", "v1">>

(* os.path.abspath: "." dropped, ".." removes the component before it and *)
(* stays at the root                                                      *)
RECURSIVE NormPath(_, _)
NormPath(done, rest) ==
    IF rest = <<>> THEN done
    ELSE IF Head(rest) = "." THEN NormPath(done, Tail(rest))
    ELSE IF Head(rest) = ".."
         THEN NormPath(IF done = <<>> THEN <<>> ELSE SubSeq(done, 1, Len(done) - 1),
                       Tail(rest))
    ELSE NormPath(Append(done, Head(rest)), Tail(rest))

(* line 1139: os.path.abspath(os.path.join(dest_dir, member.filename)) *)
TargetPath(dest, m) == NormPath(<<>>, IF m.abs THEN m.parts ELSE dest \o m.parts)

(* MemberAllowed on the joined path as written, without os.path.abspath *)
MemberAllowedNoAbspath(dest, m) ==
    LET target == IF m.abs THEN m.parts ELSE dest \o m.parts
    IN Len(target) > Len(dest) /\ IsPrefix(dest, target)

(* line 1140: target_path.startswith(os.path.abspath(dest_dir) + os.sep) *)
MemberAllowed(dest, m) ==
    LET target == TargetPath(dest, m)
        root == NormPath(<<>>, dest)
    IN Len(target) > Len(root) /\ IsPrefix(root, target)

(* line 1142: where zipfile.extractall writes a member: the name without  *)
(* its root, "." and ".." components, below the destination               *)
ExtractedPath(dest, m) == dest \o SelectSeq(m.parts, LAMBDA c : c \notin {".", ".."})

MemberNames ==
    {[abs |-> FALSE, parts |-> <<"a.html">>],
     [abs |-> FALSE, parts |-> <<"sub", "b.html">>],
     [abs |-> FALSE, parts |-> <<"sub", "..", "c.html">>],
     [abs |-> FALSE, parts |-> <<"..", "evil">>],
     [abs |-> FALSE, parts |-> <<"sub", "..", "..", "v2", "evil">>],
     [abs |-> TRUE, parts |-> <<"etc", "evil">>]}

(* line 1137: the archive is opened *)
ZipOpen(members) ==
    /\ zip.pc = "closed"
    /\ zip' = [pc |-> "checking", members |-> members, idx |-> 1, written |-> {}]
    /\ UNCHANGED <<dbVars, loop, billVars, reportVars, lastInsert, extVars>>

(* lines 1138-1141: the next member is checked; a member that is not      *)
(* allowed raises; after the last member extraction starts                *)
ZipCheckMember ==
    /\ zip.pc = "checking"
    /\ zip' = IF zip.idx > Len(zip.members)
              THEN [zip EXCEPT !.pc = "extracting", !.idx = 1]
              ELSE IF MemberAllowed(DestDir, zip.members[zip.idx])
                   THEN [zip EXCEPT !.idx = @ + 1]
                   ELSE [zip EXCEPT !.pc = "failed"]
    /\ UNCHANGED <<dbVars, loop, billVars, reportVars, lastInsert, extVars>>

(* line 1142: extractall writes the members one after the other *)
ZipExtractMember ==
    /\ zip.pc = "extracting"
    /\ zip' = IF zip.idx > Len(zip.members)
              THEN [zip EXCEPT !.pc = "extracted"]
              ELSE [zip EXCEPT !.idx = @ + 1,
                               !.written = @ \cup
                                   {ExtractedPath(DestDir, zip.members[zip.idx])}]
    /\ UNCHANGED <<dbVars, loop, billVars, reportVars, lastInsert, extVars>>

(* ------------------------------------------------------ retention sweep *)
(* A log entry is [path, ts, kind]: the key as written in the file, the    *)
(* day of the timestamp, and whether the timestamp is a naive ISO time, a  *)
(* string that does not parse ("bad"), or a time with a UTC offset         *)
(* ("aware").  The disk is the set of existing directories.                *)
Now == 3

Thresholds == {1, 2}

(* the roots the report worker logs: the version directory itself, or the  *)
(* single directory inside it (_detect_report_root)                        *)
LoggedRoots ==
    {REPORTS_DIR \o <<"1", "v1">>,
     REPORTS_DIR \o <<"1", "v2", "report">>,
     REPORTS_DIR \o <<"2", "v1">>}

(* keys a log file can hold besides: outside the tree, the tree itself, a  *)
(* subject directory, and a key that leaves the tree through ".."          *)
ForeignPaths ==
    {<<"etc">>,
     REPORTS_DIR,
     REPORTS_DIR \o <<"1">>,
     REPORTS_DIR \o <<"1", "..", "..", "etc">>}

Prefixes(path) == {SubSeq(path, 1, k) : k \in 1..Len(path)}

(* the directories that exist when the directories of `leaves` exist *)
DiskOf(leaves) == UNION {Prefixes(l) : l \in leaves}

(* logs written by _update_report_access: absolute roots, one per version  *)
(* directory, naive timestamps not in the future                           *)
ProgramEntries == [path : LoggedRoots, ts : 0..Now, kind : {"naive"}]

AnyEntries ==
    [path : LoggedRoots \cup ForeignPaths, ts : {0, Now}, kind : {"naive"}]
    \cup [path : LoggedRoots \cup ForeignPaths, ts : {0}, kind : {"bad", "aware"}]

(* a JSON object has each key once *)
LogsOver(entries) ==
    {l \in SeqsUpTo(entries, MaxLogEntries) :
        \A i, k \in DOMAIN l : i # k => l[i].path # l[k].path}

(* line 303: datetime.fromisoformat(ts), now() when it does not parse *)
LastOpened(e) == IF e.kind = "bad" THEN Now ELSE e.ts

(* line 307 with an entry older than the threshold at the boundary too *)
IsStaleInclusive(e, cutoff) == LastOpened(e) <= cutoff

(* line 307: last_opened < cutoff *)
IsStale(e, cutoff) == LastOpened(e) < cutoff

SweepIdle ==
    [pc |-> "idle", max_age |-> 0, log |-> <<>>, disk0 |-> {}, disk |-> {},
     idx |-> 0, new_data |-> <<>>, to_delete |-> <<>>, file |-> <<>>,
     targets |-> <<>>]

(* lines 314-324: the containers of the roots to delete, each once, in order *)
RECURSIVE DeleteTargets(_, _)
DeleteTargets(paths, seen) ==
    IF paths = <<>> THEN <<>>
    ELSE LET path == Head(paths)
             target == GetReportContainerDir(path)
         IN IF ~IsWithinReportsDir(path) \/ target \in seen
            THEN DeleteTargets(Tail(paths), seen)
            ELSE <<target>> \o DeleteTargets(Tail(paths), seen \cup {target})

(* _delete_tree: the directory and everything below it *)
DeleteDir(disk, target) == {d \in disk : ~IsPrefix(target, d)}

(* lines 287-292: a sweep with threshold max_age starts on the log file    *)
(* and the disk as they are, takes the lock and loads the log              *)
SweepStart(max_age, log, disk) ==
    /\ sweep.pc = "idle"
    /\ sweep' = [SweepIdle EXCEPT !.pc = "scan", !.max_age = max_age, !.log = log,
                                  !.disk0 = disk, !.disk = disk, !.idx = 1]
    /\ UNCHANGED <<dbVars, loop, billVars, reportVars, lastInsert, zip, dispatch, hdr, pdf, amt, dt, txt, sheet>>

(* lines 293-310: one entry of the loaded log *)
SweepScanEntry ==
    LET e == sweep.log[sweep.idx]
        report_root == NormPath(<<>>, e.path)
        cutoff == Now - sweep.max_age
    IN
    /\ sweep.pc = "scan"
    /\ sweep.idx <= Len(sweep.log)
    /\ sweep' =
         IF ~IsWithinReportsDir(report_root) \/ report_root \notin sweep.disk
         THEN [sweep EXCEPT !.idx = @ + 1]
         ELSE IF e.kind = "aware"
         THEN [sweep EXCEPT !.pc = "raised"]
         ELSE IF IsStale(e, cutoff)
         THEN [sweep EXCEPT !.idx = @ + 1, !.to_delete = Append(@, report_root)]
         ELSE [sweep EXCEPT !.idx = @ + 1,
                            !.new_data = (report_root :> [ts |-> e.ts, kind |-> e.kind]) @@ @]
    /\ UNCHANGED <<dbVars, loop, billVars, reportVars, lastInsert, zip, dispatch, hdr, pdf, amt, dt, txt, sheet>>

(* lines 312-324: the kept entries replace the log file (the write can     *)
(* fail), the lock is released and the delete targets are collected        *)
SweepWriteLog ==
    /\ sweep.pc = "scan"
    /\ sweep.idx > Len(sweep.log)
    /\ \E raised \in BOOLEAN :
         sweep' = IF raised THEN [sweep EXCEPT !.pc = "raised"]
                  ELSE [sweep EXCEPT !.pc = "deleting", !.file = sweep.new_data,
                                     !.idx = 1,
                                     !.targets = DeleteTargets(sweep.to_delete, {})]
    /\ UNCHANGED <<dbVars, loop, billVars, reportVars, lastInsert, zip, dispatch, hdr, pdf, amt, dt, txt, sheet>>

(* lines 326-328: the next target is deleted when it is within the tree *)
SweepDeleteTarget ==
    /\ sweep.pc = "deleting"
    /\ sweep' =
         IF sweep.idx > Len(sweep.targets) THEN [sweep EXCEPT !.pc = "done"]
         ELSE LET target == sweep.targets[sweep.idx] IN
              [sweep EXCEPT !.idx = @ + 1,
                            !.disk = IF IsWithinReportsDir(target)
                                     THEN DeleteDir(@, target) ELSE @]
    /\ UNCHANGED <<dbVars, loop, billVars, reportVars, lastInsert, zip, dispatch, hdr, pdf, amt, dt, txt, sheet>>

(* report_proxy, lines 1413-1425, while a sweep runs: the requested file  *)
(* exists on disk and is the subject's main file, so _update_report_access *)
(* (lines 268-277) takes the access-log mutex, which the sweep holds only  *)
(* from its start to its write of the log, and stamps the root with now()  *)
ReportProxyAccess(root) ==
    /\ sweep.pc \in {"deleting", "done"}
    /\ root \in sweep.disk
    /\ sweep' = [sweep EXCEPT !.file = (root :> [ts |-> Now, kind |-> "naive"]) @@ @]
    /\ UNCHANGED <<dbVars, loop, billVars, reportVars, lastInsert, zip, dispatch, hdr, pdf, amt, dt, txt, sheet>>

(* ------------------------------------------------------ parser dispatch *)
(* A path is a sequence of characters.                                     *)
Lower(c) ==
    CASE c = "P" -> "p" [] c = "D" -> "d" [] c = "F" -> "f" [] c = "X" -> "x"
      [] c = "L" -> "l" [] c = "S" -> "s" [] c = "J" -> "j" [] c = "G" -> "g"
      [] c = "N" -> "n" [] OTHER -> c

LowerStr(str) == [i \in DOMAIN str |-> Lower(str[i])]

(* the last position of character c in str, 0 when it has none *)
RFind(str, c) ==
    IF \E i \in DOMAIN str : str[i] = c
    THEN CHOOSE i \in DOMAIN str : str[i] = c /\ \A k \in DOMAIN str : str[k] = c => k <= i
    ELSE 0

(* os.path.splitext(path)[1]: from the last dot of the last component,     *)
(* unless only dots come before it in the component                        *)
SplitExt(path) ==
    LET sep == RFind(path, "/")
        dot == RFind(path, ".")
    IN IF dot > sep /\ \E i \in (sep + 1)..(dot - 1) : path[i] # "."
       THEN SubSeq(path, dot, Len(path))
       ELSE <<>>

Dirs == {<<>>, <<"d", ".", "p", "d", "f", "/">>}
Stems == {<<"a">>, <<"a", ".", "b">>, <<"a", ".", "p", "d", "f">>, <<"s", "c", "a", "n", ".", "j", "p", "g">>}

(* file extensions as written, each with the kind of file it names *)
Exts ==
    {[text |-> <<".", "p", "d", "f">>, kind |-> "pdf"],
     [text |-> <<".", "P", "D", "F">>, kind |-> "pdf"],
     [text |-> <<".", "P", "d", "f">>, kind |-> "pdf"],
     [text |-> <<".", "x", "l", "s", "x">>, kind |-> "sheet"],
     [text |-> <<".", "X", "L", "S", "X">>, kind |-> "sheet"],
     [text |-> <<".", "x", "l", "s">>, kind |-> "sheet"],
     [text |-> <<".", "X", "L", "S">>, kind |-> "sheet"],
     [text |-> <<".", "j", "p", "g">>, kind |-> "image"],
     [text |-> <<".", "J", "P", "G">>, kind |-> "image"],
     [text |-> <<".", "j", "p", "e", "g">>, kind |-> "image"],
     [text |-> <<".", "p", "n", "g">>, kind |-> "image"],
     [text |-> <<".", "P", "N", "G">>, kind |-> "image"],
     [text |-> <<".", "b", "m", "p">>, kind |-> "image"],
     [text |-> <<".", "g", "i", "f">>, kind |-> "image"],
     [text |-> <<".", "t", "x", "t">>, kind |-> "other"],
     [text |-> <<".", "c", "s", "v">>, kind |-> "other"],
     [text |-> <<".", "p", "d", "f", "x">>, kind |-> "other"],
     [text |-> <<".", "x", "l", "s", "m">>, kind |-> "other"],
     [text |-> <<".", "z", "i", "p">>, kind |-> "other"],
     [text |-> <<".", "p", "d">>, kind |-> "other"],
     [text |-> <<>>, kind |-> "other"]}

DispatchInputs ==
    {i \in [dir : Dirs, stem : Stems, ext : Exts] :
        i.ext.text = <<>> => "." \notin Range(i.stem)}

PathOf(i) == i.dir \o i.stem \o i.ext.text

DispatchIdle ==
    [pc |-> "idle", input |-> [dir |-> <<>>, stem |-> <<>>, ext |-> [text |-> <<>>, kind |-> "other"]],
     route |-> "none", opened |-> FALSE, outcome |-> "none"]

(* lines 9-17 with the extension compared as written *)
RouteOfCaseSensitive(path) ==
    LET ext == SplitExt(path) IN
    IF ext = <<".", "p", "d", "f">> THEN "pdf"
    ELSE IF ext \in {<<".", "x", "l", "s", "x">>, <<".", "x", "l", "s">>} THEN "sheet"
    ELSE IF ext \in {<<".", "j", "p", "g">>, <<".", "j", "p", "e", "g">>, <<".", "p", "n", "g">>, <<".", "b", "m", "p">>, <<".", "g", "i", "f">>} THEN "image"
    ELSE "unsupported"

(* lines 9-17: the branch taken for a path *)
RouteOf(path) ==
    LET ext == LowerStr(SplitExt(path)) IN
    IF ext = <<".", "p", "d", "f">> THEN "pdf"
    ELSE IF ext \in {<<".", "x", "l", "s", "x">>, <<".", "x", "l", "s">>} THEN "sheet"
    ELSE IF ext \in {<<".", "j", "p", "g">>, <<".", "j", "p", "e", "g">>, <<".", "p", "n", "g">>, <<".", "b", "m", "p">>, <<".", "g", "i", "f">>} THEN "image"
    ELSE "unsupported"

(* lines 8-17: parse_bill_file is called; image and unknown extensions     *)
(* raise ValueError at once                                                *)
ParseBillFile(i) ==
    LET route == RouteOf(PathOf(i)) IN
    /\ dispatch.pc = "idle"
    /\ dispatch' = [DispatchIdle EXCEPT
                      !.input = i, !.route = route,
                      !.pc = IF route \in {"pdf", "sheet"} THEN "parsing" ELSE "returned",
                      !.outcome = IF route \in {"pdf", "sheet"} THEN "none" ELSE "ValueError"]
    /\ UNCHANGED <<dbVars, loop, billVars, reportVars, lastInsert, zip, sweep, hdr, pdf, amt, dt, txt, sheet>>

(* line 11: parse_pdf_bill opens the file and returns records or raises *)
ParsePdfBill ==
    /\ dispatch.pc = "parsing"
    /\ dispatch.route = "pdf"
    /\ \E outcome \in {"records", "ValueError"} :
         dispatch' = [dispatch EXCEPT !.pc = "returned", !.opened = TRUE,
                                      !.outcome = outcome]
    /\ UNCHANGED <<dbVars, loop, billVars, reportVars, lastInsert, zip, sweep, hdr, pdf, amt, dt, txt, sheet>>

(* line 13: parse_excel_bill opens the file and returns records, none when *)
(* it cannot be read                                                       *)
ParseExcelBill ==
    /\ dispatch.pc = "parsing"
    /\ dispatch.route = "sheet"
    /\ \E outcome \in {"records", "empty"} :
         dispatch' = [dispatch EXCEPT !.pc = "returned", !.opened = TRUE,
                                      !.outcome = outcome]
    /\ UNCHANGED <<dbVars, loop, billVars, reportVars, lastInsert, zip, sweep, hdr, pdf, amt, dt, txt, sheet>>

(* ----------------------------------------------------- PDF table cells *)
(* A cell is a sequence of glyphs: pieces of the signature words, other    *)
(* text, and the whitespace characters " ", "NL" (\n), "IDSP" (U+3000) and *)
(* "TAB" (\t).  A cell that is None is the empty cell: clean_str maps it   *)
(* to "".                                                                  *)
Whitespace == {" ", "NL", "IDSP", "TAB"}

TokenId == <<"jiaoyi", "danhao">>          \* transaction id
TokenTime == <<"jiaoyi", "shijian">>        \* transaction time
TokenInOut == <<"shou/", "zhi">>          \* income/expense
TokenOrderId == <<"jiaoyi", "ding", "danhao">> \* transaction order id

(* str.strip() *)
Strip(str) ==
    LET keep == {i \in DOMAIN str : str[i] \notin Whitespace} IN
    IF keep = {} THEN <<>>
    ELSE LET first == CHOOSE i \in keep : \A k \in keep : i <= k
             last == CHOOSE i \in keep : \A k \in keep : k <= i
         IN SubSeq(str, first, last)

(* clean_str: newlines become spaces, then strip *)
CleanStr(cell) == Strip([i \in DOMAIN cell |-> IF cell[i] = "NL" THEN " " ELSE cell[i]])

(* _normalize_header_cell: clean_str, then " " and U+3000 removed *)
NormalizeHeaderCell(cell) ==
    SelectSeq(CleanStr(cell), LAMBDA g : g \notin {" ", "IDSP"})

RECURSIVE Concat(_)
Concat(strs) == IF strs = <<>> THEN <<>> ELSE Head(strs) \o Concat(Tail(strs))

(* token in str *)
Contains(str, token) ==
    \E i \in 1..(Len(str) - Len(token) + 1) : SubSeq(str, i, i + Len(token) - 1) = token

(* lines 400-413: the signature a row carries *)
RowSignature(row) ==
    LET normalized_joined == Concat([i \in DOMAIN row |-> NormalizeHeaderCell(row[i])]) IN
    IF Contains(normalized_joined, TokenId) /\ Contains(normalized_joined, TokenTime)
    THEN "wechat"
    ELSE IF Contains(normalized_joined, TokenInOut) /\ Contains(normalized_joined, TokenOrderId)
    THEN "alipay"
    ELSE "unknown"

(* lines 396-413: the first row with a signature; index 0 stands for -1 *)
FindHeader(table) ==
    LET hits == {i \in DOMAIN table : RowSignature(table[i]) # "unknown"} IN
    IF hits = {} THEN [header_index |-> 0, bill_type |-> "unknown"]
    ELSE LET i == CHOOSE i \in hits : \A k \in hits : i <= k
         IN [header_index |-> i, bill_type |-> RowSignature(table[i])]

HeaderCells ==
    {<<>>, <<"jine">>, <<"jiaoyi">>, <<"danhao">>,
     <<"jiaoyi", "danhao">>, <<"jiaoyi", " ", "danhao">>, <<"jiaoyi", "NL", "danhao">>,
     <<"jiaoyi", "IDSP", "danhao">>, <<"jiaoyi", "TAB", "danhao">>,
     <<"jiaoyi", "shijian">>, <<" ", "jiaoyi", "shijian", " ">>,
     <<"shou/", "zhi">>, <<"jiaoyi", "ding", "danhao">>}

HeaderRows == SeqsUpTo(HeaderCells, MaxCells)

(* rows that can stand above the row under test *)
LeadRows == {<<<<"jine">>>>, <<<<"jiaoyi", "danhao">>, <<"jiaoyi", "shijian">>>>,
             <<<<"shou/", "zhi">>, <<"jiaoyi", "ding", "danhao">>>>}

HeaderTables ==
    {<<row>> : row \in HeaderRows} \cup
    {<<lead, row>> : lead \in LeadRows, row \in HeaderRows}

HdrIdle == [pc |-> "idle", table |-> <<>>, header_index |-> 0, bill_type |-> "unknown"]

(* lines 396-413 on one table *)
ScanHeader(table) ==
    /\ hdr.pc = "idle"
    /\ hdr' = [pc |-> "scanned", table |-> table,
               header_index |-> FindHeader(table).header_index,
               bill_type |-> FindHeader(table).bill_type]
    /\ UNCHANGED <<dbVars, loop, billVars, reportVars, lastInsert, zip, sweep, dispatch, pdf, amt, dt, txt, sheet>>

(* ------------------------------------------------------- PDF page loop *)
(* Further glyphs: "DATE" a date pattern, "ID16" a run of 16 or more       *)
(* digits, "AMT" an amount, "zhifubao" the platform-B name, "x" other text *)
TextCell == <<"x">>

WechatHeaderRow ==
    <<TokenId, TokenTime, TextCell, TokenInOut \o <<"x">>, TextCell, <<"jine">>,
      TextCell, TextCell>>

AlipayHeaderRow ==
    <<TokenInOut, TextCell, TextCell, TextCell, <<"jine">>, TokenOrderId, TextCell,
      TokenTime>>

WechatDataRow ==
    <<<<"ID16">>, <<"DATE">>, TextCell, TextCell, TextCell, <<"AMT">>, TextCell, TextCell>>

AlipayDataRow ==
    <<TextCell, TextCell, TextCell, TextCell, <<"AMT">>, <<"ID16">>, TextCell, <<"DATE">>>>

NoteRow == <<TextCell, TextCell>>

BlankRow == <<<<>>, <<" ">>>>

TableKinds ==
    {<<WechatHeaderRow, WechatDataRow>>,
     <<AlipayHeaderRow, AlipayDataRow>>,
     <<AlipayHeaderRow>>,
     <<BlankRow, AlipayDataRow>>,
     <<WechatDataRow>>,
     <<NoteRow>>}

(* " ".join of the cleaned cells, stripped *)
JoinedRow(row) ==
    Strip(Concat([i \in DOMAIN row |->
                    IF i = 1 THEN CleanStr(row[i]) ELSE <<" ">> \o CleanStr(row[i])]))

GuessRowLimit == 8

(* _guess_pdf_bill_type_from_table: the first of the first 8 non-empty     *)
(* rows that looks like one of the platforms                               *)
GuessPdfBillType(table) ==
    LET filled == SelectSeq(table, LAMBDA row : JoinedRow(row) # <<>>)
        LooksAlipay(row) ==
            \/ "zhifubao" \in Range(JoinedRow(row))
            \/ Contains(JoinedRow(row), TokenOrderId)
            \/ Contains(JoinedRow(row), TokenInOut)
        LooksWechat(row) == {"DATE", "ID16"} \subseteq Range(JoinedRow(row))
        hits == {i \in DOMAIN filled :
                    i <= GuessRowLimit /\ (LooksAlipay(filled[i]) \/ LooksWechat(filled[i]))}
    IN IF hits = {} THEN "none"
       ELSE LET i == CHOOSE i \in hits : \A k \in hits : i <= k
            IN IF LooksAlipay(filled[i]) THEN "alipay" ELSE "wechat"

(* lines 432-531: whether a row is mapped to a record of the bill type;    *)
(* blank rows and rows with too few cells are skipped.  The id is never    *)
(* empty (a synthetic id replaces a missing one).                          *)
RowMapped(bill_type, row) ==
    /\ JoinedRow(row) # <<>>
    /\ Len(row) >= (IF bill_type = "wechat" THEN 7 ELSE 8)

RecordsOf(bill_type, table, start_index) ==
    Cardinality({i \in DOMAIN table : i > start_index /\ RowMapped(bill_type, table[i])})

NoTable == [header |-> "unknown", lock_before |-> "none", type_before |-> "none",
            mapped |-> "none", consulted |-> FALSE, page |-> 0]

PdfIdle ==
    [pc |-> "idle", page |-> 0, tables |-> <<>>, t |-> 0, current_bill_type |-> "none",
     count |-> 0, before_page |-> 0, added_by_tables |-> 0, text_run |-> FALSE,
     header_lock |-> "none", last |-> NoTable]

(* lines 357-387: a document that is not the certificate type is opened *)
PdfOpen ==
    /\ pdf.pc = "idle"
    /\ pdf' = [PdfIdle EXCEPT !.pc = "page_done"]
    /\ UNCHANGED <<dbVars, loop, billVars, reportVars, lastInsert, zip, sweep, dispatch, hdr, amt, dt, txt, sheet>>

(* lines 388-394: the next page; a page without tables goes to the text    *)
(* reconstructor, which returns text_records records                       *)
PdfNextPage(tables, text_records) ==
    /\ pdf.pc = "page_done"
    /\ pdf.page < MaxPages
    /\ tables = <<>> \/ text_records = 0
    /\ pdf' = [pdf EXCEPT
                 !.page = @ + 1, !.tables = tables, !.t = 1,
                 !.before_page = pdf.count, !.added_by_tables = 0,
                 !.pc = IF tables = <<>> THEN "page_done" ELSE "tables",
                 !.text_run = (tables = <<>>),
                 !.count = IF tables = <<>> THEN @ + text_records ELSE @]
    /\ UNCHANGED <<dbVars, loop, billVars, reportVars, lastInsert, zip, sweep, dispatch, hdr, amt, dt, txt, sheet>>

(* PdfTable that asks the content heuristic for every table without a      *)
(* header                                                                  *)
PdfTableReguess ==
    LET table == pdf.tables[pdf.t]
        found == FindHeader(table)
        has_header == found.header_index # 0
        guessed == GuessPdfBillType(table)
        bill_type == IF has_header THEN found.bill_type ELSE guessed
        start_index == IF has_header THEN found.header_index ELSE 0
        added == IF bill_type = "none" THEN 0 ELSE RecordsOf(bill_type, table, start_index)
    IN
    /\ pdf.pc = "tables"
    /\ pdf.t <= Len(pdf.tables)
    /\ pdf' = [pdf EXCEPT
                 !.t = @ + 1,
                 !.current_bill_type = IF bill_type = "none" THEN @ ELSE bill_type,
                 !.count = @ + added,
                 !.added_by_tables = @ + added,
                 !.header_lock = IF has_header THEN found.bill_type ELSE @,
                 !.last = [header |-> found.bill_type, lock_before |-> pdf.header_lock,
                           type_before |-> pdf.current_bill_type, mapped |-> bill_type,
                           consulted |-> ~has_header, page |-> pdf.page]]
    /\ UNCHANGED <<dbVars, loop, billVars, reportVars, lastInsert, zip, sweep, dispatch, hdr, amt, dt, txt, sheet>>

(* lines 396-531: one table of the page: header scan, the locked type or   *)
(* the content heuristic, then its rows                                    *)
PdfTable ==
    LET table == pdf.tables[pdf.t]
        found == FindHeader(table)
        has_header == found.header_index # 0
        locked == pdf.current_bill_type \in {"wechat", "alipay"}
        consulted == ~has_header /\ ~locked
        guessed == GuessPdfBillType(table)
        bill_type == IF has_header THEN found.bill_type
                     ELSE IF locked THEN pdf.current_bill_type
                     ELSE guessed
        start_index == IF has_header THEN found.header_index ELSE 0
        added == IF bill_type = "none" THEN 0 ELSE RecordsOf(bill_type, table, start_index)
    IN
    /\ pdf.pc = "tables"
    /\ pdf.t <= Len(pdf.tables)
    /\ pdf' = [pdf EXCEPT
                 !.t = @ + 1,
                 !.current_bill_type = IF bill_type = "none" THEN @ ELSE bill_type,
                 !.count = @ + added,
                 !.added_by_tables = @ + added,
                 !.header_lock = IF has_header THEN found.bill_type ELSE @,
                 !.last = [header |-> found.bill_type, lock_before |-> pdf.header_lock,
                           type_before |-> pdf.current_bill_type, mapped |-> bill_type,
                           consulted |-> consulted, page |-> pdf.page]]
    /\ UNCHANGED <<dbVars, loop, billVars, reportVars, lastInsert, zip, sweep, dispatch, hdr, amt, dt, txt, sheet>>

(* PdfPageEnd that never runs the text reconstructor on a page with tables *)
PdfPageEndNoText ==
    /\ pdf.pc = "tables"
    /\ pdf.t > Len(pdf.tables)
    /\ pdf' = [pdf EXCEPT !.pc = "page_done"]
    /\ UNCHANGED <<dbVars, loop, billVars, reportVars, lastInsert, zip, sweep, dispatch, hdr, amt, dt, txt, sheet>>

(* lines 533-535: after the tables of a page, the text reconstructor runs  *)
(* when the page added nothing; it returns text_records records            *)
PdfPageEnd ==
    /\ pdf.pc = "tables"
    /\ pdf.t > Len(pdf.tables)
    /\ IF pdf.count = pdf.before_page
       THEN \E text_records \in 0..1 :
              pdf' = [pdf EXCEPT !.pc = "page_done", !.text_run = TRUE,
                                 !.count = @ + text_records]
       ELSE pdf' = [pdf EXCEPT !.pc = "page_done"]
    /\ UNCHANGED <<dbVars, loop, billVars, reportVars, lastInsert, zip, sweep, dispatch, hdr, amt, dt, txt, sheet>>

(* line 537: after the last page the records are returned *)
PdfReturn ==
    /\ pdf.pc = "page_done"
    /\ pdf' = [pdf EXCEPT !.pc = "returned"]
    /\ UNCHANGED <<dbVars, loop, billVars, reportVars, lastInsert, zip, sweep, dispatch, hdr, amt, dt, txt, sheet>>

(* -------------------------------------------------------------- amounts *)
(* An amount cell or token is [kind, sign, yen, comma, cents]: kind is     *)
(* "number" for digits with an optional sign, "text" for anything float()  *)
(* rejects, "none" for a missing cell; yen and comma say whether the cell  *)
(* carries a currency mark or thousands separators.  Amounts are in cents. *)
AmountCells ==
    [kind : {"number"}, sign : {"", "+", "-"}, yen : BOOLEAN, comma : BOOLEAN,
     cents : 0..MaxAmount]
    \cup [kind : {"text", "none"}, sign : {""}, yen : {FALSE}, comma : {FALSE}, cents : {0}]

(* the amount tokens the regular expressions of the text block match *)
AmountTokens ==
    [kind : {"number"}, sign : {"", "+", "-"}, yen : BOOLEAN, comma : {FALSE},
     cents : 0..MaxAmount]
    \cup [kind : {"none"}, sign : {""}, yen : {FALSE}, comma : {FALSE}, cents : {0}]

(* parse_amount: "," and the currency mark removed, then float(), 0.0 when *)
(* the cell is None or float() raises                                      *)
ParseAmount(cell) ==
    IF cell.kind # "number" THEN 0
    ELSE IF cell.sign = "-" THEN 0 - cell.cents ELSE cell.cents

(* lines 149-154: the matched token without its currency mark goes through *)
(* parse_amount, and a negative value is replaced by its absolute value    *)
TextBlockAmount(token) ==
    LET amount_val == ParseAmount(token) IN
    IF token.kind = "none" THEN 0
    ELSE IF amount_val < 0 THEN 0 - amount_val ELSE amount_val

AmtIdle ==
    [path |-> "none",
     src |-> [kind |-> "none", sign |-> "", yen |-> FALSE, comma |-> FALSE, cents |-> 0],
     amount |-> 0]

(* line 473: a platform-A table row of a PDF is mapped *)
EmitWechatTableRow(cell) ==
    /\ amt' = [path |-> "pdf_table_wechat", src |-> cell, amount |-> ParseAmount(cell)]
    /\ UNCHANGED <<dbVars, loop, billVars, reportVars, lastInsert, zip, sweep, dispatch, hdr, pdf, dt, txt, sheet>>

(* line 521: a platform-B table row of a PDF is mapped *)
EmitAlipayTableRow(cell) ==
    /\ amt' = [path |-> "pdf_table_alipay", src |-> cell, amount |-> ParseAmount(cell)]
    /\ UNCHANGED <<dbVars, loop, billVars, reportVars, lastInsert, zip, sweep, dispatch, hdr, pdf, dt, txt, sheet>>

(* lines 609 and 638: a spreadsheet row of either platform is mapped *)
EmitSheetRow(platform, cell) ==
    /\ amt' = [path |-> platform, src |-> cell, amount |-> ParseAmount(cell)]
    /\ UNCHANGED <<dbVars, loop, billVars, reportVars, lastInsert, zip, sweep, dispatch, hdr, pdf, dt, txt, sheet>>

(* lines 145-154, 194: a text block is reconstructed *)
EmitTextBlock(token) ==
    /\ amt' = [path |-> "text_block", src |-> token, amount |-> TextBlockAmount(token)]
    /\ UNCHANGED <<dbVars, loop, billVars, reportVars, lastInsert, zip, sweep, dispatch, hdr, pdf, dt, txt, sheet>>

(* ------------------------------------------------------------ datetimes *)
(* A string is a sequence of tokens [c, w, n]: a run of digits is one     *)
(* token with c = "num", width w and value n; any other character is a    *)
(* token with c the character ("NL" a newline, "nian", "yue", "ri" the    *)
(* year, month and day glyphs, "x" any other character).                  *)
Lit(ch) == [c |-> ch, w |-> 0, n |-> 0]
Num(width, value) == [c |-> "num", w |-> width, n |-> value]

(* the values handed to parse_datetime: None, the empty string, a string  *)
(* of other characters, or a date optionally followed by a time           *)
DateParts ==
    [kind : {"date"}, lead : {"", " "}, yw : {2, 4}, s1 : {"-", "/", ".", "nian"},
     m : {2, 6, 13}, s2 : {"-", "/", ".", "yue"}, d : {1, 30, 32}, ri : BOOLEAN]
TimeParts ==
    [gap : {"none"}, time : {"none"}, h : {0}, mi : {0}, sec : {0}]
    \cup [gap : {"sp", "nl", "sp2", "sp3", "T"}, time : {"HM"}, h : {12, 24}, mi : {0, 60}, sec : {0}]
    \cup [gap : {"sp", "nl", "sp2", "sp3", "T"}, time : {"HMS"}, h : {12}, mi : {0}, sec : {0, 60}]
OtherInput(k) ==
    [kind |-> k, lead |-> "", yw |-> 4, s1 |-> "-", m |-> 6, s2 |-> "-", d |-> 1, ri |-> FALSE,
     gap |-> "none", time |-> "none", h |-> 0, mi |-> 0, sec |-> 0]
DatetimeInputs ==
    {[kind |-> a.kind, lead |-> a.lead, yw |-> a.yw, s1 |-> a.s1, m |-> a.m, s2 |-> a.s2,
      d |-> a.d, ri |-> a.ri, gap |-> b.gap, time |-> b.time, h |-> b.h, mi |-> b.mi,
      sec |-> b.sec] : a \in DateParts, b \in TimeParts}
    \cup {OtherInput("none"), OtherInput("empty"), OtherInput("junk")}

GapText(gap) ==
    CASE gap = "sp" -> <<Lit(" ")>>
      [] gap = "nl" -> <<Lit("NL")>>
      [] gap = "sp2" -> <<Lit(" "), Lit(" ")>>
      [] gap = "sp3" -> <<Lit(" "), Lit(" "), Lit(" ")>>
      [] gap = "T" -> <<Lit("T")>>
      [] OTHER -> <<>>

TimeText(i) ==
    CASE i.time = "HM" -> <<Num(2, i.h), Lit(":"), Num(2, i.mi)>>
      [] i.time = "HMS" -> <<Num(2, i.h), Lit(":"), Num(2, i.mi), Lit(":"), Num(2, i.sec)>>
      [] OTHER -> <<>>

(* str(val) *)
StrOf(i) ==
    CASE i.kind = "empty" -> <<>>
      [] i.kind = "junk" -> <<Lit("x")>>
      [] OTHER ->
            (IF i.lead = " " THEN <<Lit(" ")>> ELSE <<>>)
            \o <<Num(i.yw, IF i.yw = 4 THEN 2021 ELSE 21), Lit(i.s1), Num(2, i.m), Lit(i.s2),
                 Num(2, i.d)>>
            \o (IF i.ri THEN <<Lit("ri")>> ELSE <<>>)
            \o GapText(i.gap) \o TimeText(i)

IsSpace(t) == t.c \in {" ", "NL"}

RECURSIVE LStrip(_)
LStrip(str) == IF str # <<>> /\ IsSpace(Head(str)) THEN LStrip(Tail(str)) ELSE str

RECURSIVE RStrip(_)
RStrip(str) ==
    IF str # <<>> /\ IsSpace(str[Len(str)]) THEN RStrip(SubSeq(str, 1, Len(str) - 1)) ELSE str

(* line 42: str.strip() *)
StripText(str) == RStrip(LStrip(str))

(* str.replace of one character by a string *)
ReplaceChar(str, ch, by) ==
    Concat([k \in 1..Len(str) |-> IF str[k].c = ch THEN by ELSE <<str[k]>>])

(* line 44: replace('  ', ' '), one pass from the left without overlaps *)
RECURSIVE ReplaceTwoSpaces(_)
ReplaceTwoSpaces(str) ==
    IF Len(str) < 2 THEN str
    ELSE IF str[1].c = " " /\ str[2].c = " "
         THEN <<Lit(" ")>> \o ReplaceTwoSpaces(Tail(Tail(str)))
         ELSE <<Head(str)>> \o ReplaceTwoSpaces(Tail(str))

(* lines 42-46 *)
NormalizeTime(str) ==
    LET s1 == StripText(str)
        s2 == ReplaceTwoSpaces(ReplaceChar(s1, "NL", <<Lit(" ")>>))
        s3 == ReplaceChar(ReplaceChar(ReplaceChar(s2, "nian", <<Lit("-")>>),
                                      "yue", <<Lit("-")>>), "ri", <<>>)
    IN  ReplaceChar(s3, ".", <<Lit("-")>>)

(* lines 48-56; "WS" is the blank of a format, which strptime matches     *)
(* against one or more whitespace characters                              *)
FormatsNoMinute ==
    << <<"Y", "-", "m", "-", "d", "WS", "H", ":", "M", ":", "S">>,
       <<"Y", "/", "m", "/", "d", "WS", "H", ":", "M">>,
       <<"Y", "/", "m", "/", "d", "WS", "H", ":", "M", ":", "S">>,
       <<"Y", ".", "m", ".", "d", "WS", "H", ":", "M", ":", "S">>,
       <<"Y", ".", "m", ".", "d", "WS", "H", ":", "M">>,
       <<"Y", "-", "m", "-", "d">> >>
Formats ==
    << <<"Y", "-", "m", "-", "d", "WS", "H", ":", "M", ":", "S">>,
       <<"Y", "-", "m", "-", "d", "WS", "H", ":", "M">>,
       <<"Y", "/", "m", "/", "d", "WS", "H", ":", "M">>,
       <<"Y", "/", "m", "/", "d", "WS", "H", ":", "M", ":", "S">>,
       <<"Y", ".", "m", ".", "d", "WS", "H", ":", "M", ":", "S">>,
       <<"Y", ".", "m", ".", "d", "WS", "H", ":", "M">>,
       <<"Y", "-", "m", "-", "d">> >>

Directives == {"Y", "m", "d", "H", "M", "S"}

(* the digits a directive of strptime accepts *)
FieldOk(dir, t) ==
    /\ t.c = "num"
    /\ CASE dir = "Y" -> t.w = 4
         [] dir = "m" -> t.w \in {1, 2} /\ t.n \in 1..12
         [] dir = "d" -> t.w \in {1, 2} /\ t.n \in 1..31
         [] dir = "H" -> t.w \in {1, 2} /\ t.n \in 0..23
         [] dir = "M" -> t.w \in {1, 2} /\ t.n \in 0..59
         [] OTHER -> t.w \in {1, 2} /\ t.n \in 0..61

RECURSIVE Matches(_, _)
Matches(str, fmt) ==
    IF fmt = <<>> THEN str = <<>>
    ELSE IF str = <<>> THEN FALSE
    ELSE IF Head(fmt) = "WS"
         THEN IsSpace(Head(str))
              /\ (Matches(Tail(str), Tail(fmt)) \/ Matches(Tail(str), fmt))
    ELSE IF Head(fmt) \in Directives
         THEN FieldOk(Head(fmt), Head(str)) /\ Matches(Tail(str), Tail(fmt))
    ELSE Head(str).c = Head(fmt) /\ Matches(Tail(str), Tail(fmt))

(* days of the months of a year that is not a leap year *)
DaysIn(month) ==
    IF month = 2 THEN 28 ELSE IF month \in {4, 6, 9, 11} THEN 30 ELSE 31

ValueError == [error |-> "ValueError"]
NullTime == [null |-> TRUE]

(* line 60: datetime.strptime(s, fmt), a datetime or a ValueError *)
Strptime(str, fmt) ==
    IF ~Matches(str, fmt) THEN ValueError
    ELSE LET nums == SelectSeq(str, LAMBDA t : t.c = "num")
             field(k) == IF k <= Len(nums) THEN nums[k].n ELSE 0
         IN  IF field(3) > DaysIn(field(2)) \/ field(6) > 59 THEN ValueError
             ELSE [year |-> field(1), month |-> field(2), day |-> field(3),
                   hour |-> field(4), minute |-> field(5), second |-> field(6)]

(* lines 58-63: the first format that does not raise ValueError *)
RECURSIVE TryFormats(_, _)
TryFormats(str, fmts) ==
    IF fmts = <<>> THEN NullTime
    ELSE LET r == Strptime(str, Head(fmts)) IN
         IF r = ValueError THEN TryFormats(str, Tail(fmts)) ELSE r

DtIdle == [pc |-> "idle", input |-> OtherInput("none"), text |-> <<>>, result |-> NullTime]

(* lines 39-63 *)
ParseDatetime(i) ==
    /\ dt.pc = "idle"
    /\ dt' = IF i.kind = "none"
             THEN [pc |-> "returned", input |-> i, text |-> <<>>, result |-> NullTime]
             ELSE [pc |-> "returned", input |-> i, text |-> NormalizeTime(StrOf(i)),
                   result |-> TryFormats(NormalizeTime(StrOf(i)), Formats)]
    /\ UNCHANGED <<dbVars, loop, billVars, reportVars, lastInsert, zip, sweep, dispatch, hdr, pdf, amt, txt, sheet>>

(* ------------------------------------------------------- text line scan *)
(* A line of page text is known by what the scan's patterns find in it:   *)
(* date (a date pattern), id (a run of at least 16 digits), clock (a      *)
(* clock time), money (a monetary token); date_only says the line is a    *)
(* date and nothing else, clock_first that it begins with a clock time.   *)
LineOf(date, id, clock, money, date_only, clock_first) ==
    [date |-> date, id |-> id, clock |-> clock, money |-> money,
     date_only |-> date_only, clock_first |-> clock_first]

LineKinds ==
    {LineOf(TRUE, TRUE, FALSE, FALSE, FALSE, FALSE),
     LineOf(TRUE, TRUE, TRUE, TRUE, FALSE, FALSE),
     LineOf(FALSE, FALSE, TRUE, FALSE, FALSE, TRUE),
     LineOf(FALSE, FALSE, FALSE, TRUE, FALSE, FALSE),
     LineOf(FALSE, FALSE, FALSE, FALSE, FALSE, FALSE),
     LineOf(TRUE, FALSE, FALSE, FALSE, TRUE, FALSE),
     LineOf(FALSE, TRUE, FALSE, FALSE, FALSE, FALSE)}

PageTexts == SeqsUpTo(LineKinds, MaxLines)

(* two pieces of text joined by a blank hold what either holds *)
JoinText(a, b) ==
    LineOf(a.date \/ b.date, a.id \/ b.id, a.clock \/ b.clock, a.money \/ b.money,
           FALSE, a.clock_first)

(* lines 204-217: a line that is only a date is merged with a following   *)
(* line that begins with a clock time                                     *)
RECURSIVE MergeLines(_)
MergeLines(lines) ==
    IF lines = <<>> THEN <<>>
    ELSE IF lines[1].date_only /\ Len(lines) >= 2 /\ lines[2].clock_first
         THEN <<JoinText(lines[1], lines[2])>> \o MergeLines(Tail(Tail(lines)))
         ELSE <<lines[1]>> \o MergeLines(Tail(lines))

(* the look-ahead of line 240: range(1, 4) ends at 3 *)
LookAhead == 3

(* lines 234-238 and 248-252 *)
BlockComplete(block) == block.id /\ block.clock /\ block.money

(* BlockStartsHere for any line that holds a date *)
BlockStartsHereAnyDate(line) == line.date

(* lines 225-230 and 244: the line holds an id and a date *)
BlockStartsHere(line) == line.id /\ line.date

(* lines 240-252: the look-ahead from the block's first line at index i,  *)
(* about to look at line i + j; gives the block and the lines it used     *)
RECURSIVE ExtendBlock(_, _, _, _, _)
ExtendBlock(lines, i, j, block, used) ==
    IF j > LookAhead \/ i + j > Len(lines) THEN [block |-> block, used |-> used]
    ELSE LET nxt == lines[i + j] IN
         IF BlockStartsHere(nxt) THEN [block |-> block, used |-> used]
         ELSE LET grown == JoinText(block, nxt) IN
              IF BlockComplete(grown) THEN [block |-> grown, used |-> j + 1]
              ELSE ExtendBlock(lines, i, j + 1, grown, j + 1)

TxtIdle == [pc |-> "idle", lines |-> <<>>, i |-> 1, blocks |-> <<>>]

(* lines 200-221: an empty text returns at once, else the lines are merged *)
TextPageStart(text) ==
    /\ txt.pc = "idle"
    /\ txt' = [pc |-> IF text = <<>> THEN "returned" ELSE "scan",
               lines |-> MergeLines(text), i |-> 1, blocks |-> <<>>]
    /\ UNCHANGED <<dbVars, loop, billVars, reportVars, lastInsert, zip, sweep, dispatch, hdr, pdf, amt, dt, sheet>>

(* lines 222-262: one turn of the scan loop *)
TextScanLine ==
    LET line == txt.lines[txt.i] IN
    /\ txt.pc = "scan"
    /\ txt.i <= Len(txt.lines)
    /\ IF ~BlockStartsHere(line)
       THEN txt' = [txt EXCEPT !.i = @ + 1]
       ELSE LET b == IF BlockComplete(line) THEN [block |-> line, used |-> 1]
                     ELSE ExtendBlock(txt.lines, txt.i, 1, line, 1)
            IN  txt' = [txt EXCEPT !.i = @ + b.used,
                                   !.blocks = Append(@, [start |-> txt.i, used |-> b.used,
                                                         block |-> b.block])]
    /\ UNCHANGED <<dbVars, loop, billVars, reportVars, lastInsert, zip, sweep, dispatch, hdr, pdf, amt, dt, sheet>>

(* lines 223 and 264: the loop ends *)
TextPageReturn ==
    /\ txt.pc = "scan"
    /\ txt.i > Len(txt.lines)
    /\ txt' = [txt EXCEPT !.pc = "returned"]
    /\ UNCHANGED <<dbVars, loop, billVars, reportVars, lastInsert, zip, sweep, dispatch, hdr, pdf, amt, dt, sheet>>

(* ------------------------------------------------------ spreadsheet rows *)
(* An id cell is empty (NaN) or a string over "d" (a digit), "x" (any     *)
(* other visible character), " " and "NL"; a time cell is empty (NaN), a  *)
(* blank string, a timestamp, or other text.                              *)
IdChars == {"d", "x", " ", "NL"}
NaN == <<"NaN">>
IdCells == {NaN} \cup {<<"str", str>> : str \in SeqsUpTo(IdChars, MaxIdLen)}
TimeCells == {"NaN", "blank", "timestamp", "text"}

(* pd.isna on a cell *)
IsNa(cell) == cell = NaN

(* clean_id, lines 23-27: newlines and blanks are removed *)
CleanId(cell) == SelectSeq(cell[2], LAMBDA ch : ch \notin {" ", "NL"})

(* lines 621-630: the guards of a platform-A row; TRUE when the row is    *)
(* skipped.  The length test is reached only for an id that is empty or   *)
(* does not begin with a digit.                                           *)
WechatRowSkipped(id, time) ==
    \/ IsNa(id)
    \/ time = "NaN"
    \/ LET tid == CleanId(id) IN
       /\ tid = <<>> \/ tid[1] # "d"
       /\ Len(tid) < 5

(* lines 595-601: the guards of a platform-B row *)
AlipayRowSkipped(id, time) ==
    \/ IsNa(id)
    \/ time = "NaN"
    \/ LET tid == CleanId(id) IN tid = <<>> \/ tid[1] # "d"

SheetIdle ==
    [pc |-> "idle", bill_type |-> "unknown", id |-> NaN, time |-> "NaN", tid |-> <<>>,
     emitted |-> FALSE]

(* lines 615-648: one data row of a platform-A sheet *)
ExcelWechatRow(id, time) ==
    /\ sheet.pc = "idle"
    /\ sheet' = [pc |-> "row_done", bill_type |-> "wechat", id |-> id, time |-> time,
                 tid |-> IF IsNa(id) THEN <<>> ELSE CleanId(id),
                 emitted |-> ~WechatRowSkipped(id, time)]
    /\ UNCHANGED <<dbVars, loop, billVars, reportVars, lastInsert, zip, sweep, dispatch, hdr, pdf, amt, dt, txt>>

(* lines 590-613: one data row of a platform-B sheet *)
ExcelAlipayRow(id, time) ==
    /\ sheet.pc = "idle"
    /\ sheet' = [pc |-> "row_done", bill_type |-> "alipay", id |-> id, time |-> time,
                 tid |-> IF IsNa(id) THEN <<>> ELSE CleanId(id),
                 emitted |-> ~AlipayRowSkipped(id, time)]
    /\ UNCHANGED <<dbVars, loop, billVars, reportVars, lastInsert, zip, sweep, dispatch, hdr, pdf, amt, dt, txt>>

(* ---------------------------------------------------------------- Init *)
InitExceptBillGate ==
    /\ suspects = Subjects
    /\ reportPath = [s \in Subjects |-> NoPath]
    /\ txns = [k \in Subjects \X TxIds |-> 0]
    /\ loop = Idle
    /\ billJobs = <<>>
    /\ billPc = <<>>
    /\ billCtx = <<>>
    /\ jobDir = <<>>
    /\ auditFiles = <<>>
    /\ reportJobs = <<>>
    /\ reportPc = <<>>
    /\ reportCtx = <<>>
    /\ reportSem = ReportGateWidth
    /\ trees = <<>>
    /\ accessLog = {}
    /\ lastInsert = NoCall
    /\ sweep = SweepIdle
    /\ dispatch = DispatchIdle
    /\ hdr = HdrIdle
    /\ pdf = PdfIdle
    /\ amt = AmtIdle
    /\ sheet = SheetIdle
    /\ txt = TxtIdle
    /\ dt = DtIdle
    /\ zip = [pc |-> "closed", members |-> <<>>, idx |-> 0, written |-> {}]

(* BILL_UPLOAD_CONCURRENCY unset: the bill gate has its default width *)
Init == InitExceptBillGate /\ billSem = BillGateWidth

(* BILL_UPLOAD_CONCURRENCY set to 2 or more *)
InitWide == InitExceptBillGate /\ billSem \in 2..MaxConcurrency

BillSteps ==
    \/ \E j \in DOMAIN billPc : BillStart(j)
    \/ \E j \in DOMAIN billPc : BillAcquire(j)
    \/ \E j \in DOMAIN billPc : BillWake(j)
    \/ \E j \in DOMAIN billPc : BillSetProcessing(j)
    \/ \E j \in DOMAIN billPc : BillQuerySuspect(j)
    \/ \E j \in DOMAIN billPc : BillSubjectMissing(j)
    \/ \E j \in DOMAIN billPc : BillFileLoop(j)
    \/ \E j \in DOMAIN billPc, data \in FileBatches : BillParseInsert(j, data)
    \/ \E j \in DOMAIN billPc : BillFileExcept(j)
    \/ \E j \in DOMAIN billPc : BillFileFinally(j)
    \/ \E j \in DOMAIN billPc : BillSetDone(j)
    \/ \E j \in DOMAIN billPc : BillExcept(j)
    \/ \E j \in DOMAIN billPc : BillWriteResult(j)
    \/ \E j \in DOMAIN billPc : BillFinally(j)
    \/ \E j \in DOMAIN billPc : BillDeleteJobDir(j)

NextBill ==
    \/ \E s \in UploadSubjects, n \in 1..MaxFiles : UploadFile(s, UploadNames(n))
    \/ BillSteps
    \/ \E s \in UploadSubjects : DeleteSuspect(s)

ReportSteps ==
    \/ \E j \in DOMAIN reportPc : ReportStart(j)
    \/ \E j \in DOMAIN reportPc : ReportAcquire(j)
    \/ \E j \in DOMAIN reportPc : ReportWake(j)
    \/ \E j \in DOMAIN reportPc : ReportSetProcessing(j)
    \/ \E j \in DOMAIN reportPc : ReportQuerySuspect(j)
    \/ \E j \in DOMAIN reportPc : ReportSubjectMissing(j)
    \/ \E j \in DOMAIN reportPc : ReportExtract(j)
    \/ \E j \in DOMAIN reportPc : ReportLocate(j)
    \/ \E j \in DOMAIN reportPc : ReportCommit(j)
    \/ \E j \in DOMAIN reportPc : ReportRemoveOldAccess(j)
    \/ \E j \in DOMAIN reportPc : ReportDeleteOldTree(j)
    \/ \E j \in DOMAIN reportPc : ReportUpdateAccess(j)
    \/ \E j \in DOMAIN reportPc : ReportSetDone(j)
    \/ \E j \in DOMAIN reportPc : ReportExcept(j)
    \/ \E j \in DOMAIN reportPc : ReportDeleteWorkDir(j)
    \/ \E j \in DOMAIN reportPc : ReportFinally(j)

NextReport ==
    \/ \E s \in UploadSubjects, kind \in ArchiveKinds : UploadReport(s, kind)
    \/ ReportSteps
    \/ \E s \in UploadSubjects : DeleteSuspect(s)

(* Both pipelines together; uploads here are single-file bills and        *)
(* well-formed archives (SpecBill and SpecReport cover the other inputs)  *)
Next ==
    \/ \E s \in UploadSubjects : UploadFile(s, UploadNames(1))
    \/ \E s \in UploadSubjects : UploadReport(s, "good")
    \/ BillSteps
    \/ ReportSteps
    \/ \E s \in UploadSubjects : DeleteSuspect(s)

Spec == Init /\ [][Next]_vars

(* The event loop runs a ready coroutine or a finished thread call when   *)
(* there is one: some worker step is taken whenever one stays enabled.    *)
(* Every thread call of the model returns or raises.                      *)
SpecFair == Init /\ [][Next]_vars /\ WF_vars(BillSteps \/ ReportSteps)

SpecBill == Init /\ [][NextBill]_vars

(* the bill pipeline behind a gate of width 2 or more *)
SpecBillWide == InitWide /\ [][NextBill]_vars

SpecReport == Init /\ [][NextReport]_vars

(* report uploads and retention sweeps on one storage *)
NextStore ==
    \/ NextReport
    \/ \E stale \in SUBSET accessLog : CleanupStaleReports(stale)

SpecStore == Init /\ [][NextStore]_vars

(* the dedup/insert step on its own, for every subject and batch *)
NextInsert ==
    \E s \in Subjects, data \in SeqsUpTo(TxIds \cup {NoId}, MaxBatchLen) :
        InsertBatch(s, data)

SpecInsert == Init /\ [][NextInsert]_vars

(* zip extraction on its own, for every archive of up to MaxEntries members *)
NextZip ==
    \/ \E members \in SeqsUpTo(MemberNames, MaxEntries) : ZipOpen(members)
    \/ ZipCheckMember
    \/ ZipExtractMember

SpecZip == Init /\ [][NextZip]_vars

(* a retention sweep on its own, over the logs the program writes; a     *)
(* logged root may be missing on disk                                      *)
SweepSteps ==
    \/ SweepScanEntry
    \/ SweepWriteLog
    \/ SweepDeleteTarget

NextSweep ==
    \/ \E max_age \in Thresholds, log \in LogsOver(ProgramEntries),
          leaves \in SUBSET LoggedRoots :
           SweepStart(max_age, log, DiskOf(leaves \cup {REPORTS_DIR}))
    \/ SweepSteps

SpecSweep == Init /\ [][NextSweep]_vars

(* a retention sweep over any contents of the log file *)
NextSweepAny ==
    \/ \E log \in LogsOver(AnyEntries),
          leaves \in SUBSET {REPORTS_DIR \o <<"1", "v1">>, REPORTS_DIR \o <<"2", "v1">>} :
           SweepStart(1, log, DiskOf(leaves \cup {REPORTS_DIR, <<"etc">>}))
    \/ SweepSteps

SpecSweepAny == Init /\ [][NextSweepAny]_vars

(* a retention sweep while reports are being opened *)
NextSweepRace ==
    \/ NextSweep
    \/ \E root \in LoggedRoots : ReportProxyAccess(root)

SpecSweepRace == Init /\ [][NextSweepRace]_vars

(* parse_bill_file on its own, for every path *)
NextDispatch ==
    \/ \E i \in DispatchInputs : ParseBillFile(i)
    \/ ParsePdfBill
    \/ ParseExcelBill

SpecDispatch == Init /\ [][NextDispatch]_vars

(* the header scan on its own, for every table *)
NextHeader == \E table \in HeaderTables : ScanHeader(table)

SpecHeader == Init /\ [][NextHeader]_vars

(* the page loop of parse_pdf_bill on its own, for every document of up  *)
(* to MaxPages pages with up to MaxTables tables each                      *)
NextPdf ==
    \/ PdfOpen
    \/ \E tables \in SeqsUpTo(TableKinds, MaxTables), text_records \in 0..1 :
           PdfNextPage(tables, text_records)
    \/ PdfTable
    \/ PdfPageEnd
    \/ PdfReturn

SpecPdf == Init /\ [][NextPdf]_vars

(* the amount of an emitted record, on every extraction path *)
NextAmount ==
    \/ \E cell \in AmountCells : EmitWechatTableRow(cell)
    \/ \E cell \in AmountCells : EmitAlipayTableRow(cell)
    \/ \E platform \in {"sheet_wechat", "sheet_alipay"}, cell \in AmountCells :
           EmitSheetRow(platform, cell)
    \/ \E token \in AmountTokens : EmitTextBlock(token)

SpecAmount == Init /\ [][NextAmount]_vars

(* one call of the datetime normalizer on every input *)
NextDatetime == dt.pc = "idle" /\ \E i \in DatetimeInputs : ParseDatetime(i)

SpecDatetime == Init /\ [][NextDatetime]_vars

(* the line scan of the text-block reconstructor on every page text; the *)
(* loop is sequential code, so its steps are taken until it returns      *)
NextTextScan ==
    \/ txt.pc = "idle" /\ \E text \in PageTexts : TextPageStart(text)
    \/ TextScanLine
    \/ TextPageReturn

SpecTextScan ==
    Init /\ [][NextTextScan]_vars /\ WF_vars(TextScanLine) /\ WF_vars(TextPageReturn)

(* one data row of a spreadsheet, for every id cell and time cell *)
NextSheet ==
    \/ sheet.pc = "idle" /\ \E id \in IdCells, time \in TimeCells : ExcelWechatRow(id, time)
    \/ sheet.pc = "idle" /\ \E id \in IdCells, time \in TimeCells : ExcelAlipayRow(id, time)

SpecSheet == Init /\ [][NextSheet]_vars

(* ================================================================ claims *)
Processing(reg) == {j \in DOMAIN reg : reg[j].status = "processing"}

(* C1: for each of the two gates, in every reachable state the number of  *)
(* jobs of that class whose status is "processing" is at most the gate    *)
(* width, also when more jobs than the width have been launched.          *)
C1_GateBound ==
    /\ Cardinality(Processing(billJobs)) <= BillGateWidth
    /\ Cardinality(Processing(reportJobs)) <= ReportGateWidth

(* more report jobs launched than the gate is wide: the gate is full and  *)
(* a further job waits in "queued"                                        *)
C1_Witness ==
    /\ Cardinality(DOMAIN reportJobs) > ReportGateWidth
    /\ Cardinality(Processing(reportJobs)) = ReportGateWidth
    /\ \E j \in DOMAIN reportJobs :
         reportPc[j] = "waiting" /\ reportJobs[j].status = "queued"

StatusStep(a, b) ==
    \/ a = b
    \/ <<a, b>> \in {<<"queued", "processing">>, <<"processing", "done">>,
                     <<"processing", "error">>}

RegistryLifecycle(reg, regNext) ==
    \A j \in DOMAIN regNext :
        IF j \in DOMAIN reg THEN StatusStep(reg[j].status, regNext[j].status)
        ELSE regNext[j].status = "queued"

(* C2: every step of either worker changes a job's status only along      *)
(* queued -> processing -> {done, error}: a job enters the registry as    *)
(* queued, is never done or error without having been processing, and a   *)
(* done or error status never changes again.                              *)
C2_StatusLifecycle ==
    [][/\ RegistryLifecycle(billJobs, billJobs')
       /\ RegistryLifecycle(reportJobs, reportJobs')]_vars

(* a bill worker has ended in done and a report worker in error *)
C2_Witness ==
    /\ \E j \in DOMAIN billJobs :
         billPc[j] = "finished" /\ billJobs[j].status = "done"
    /\ \E j \in DOMAIN reportJobs :
         reportPc[j] = "finished" /\ reportJobs[j].status = "error"

(* C3: when a bill worker has finished, the job's audit file exists and   *)
(* holds the job record with its terminal status (done or error, whatever *)
(* the reason).                                                           *)
C3_AuditOnEveryTerminal ==
    \A j \in DOMAIN billJobs :
        billPc[j] = "finished" =>
            LET name == AuditName(billJobs[j].suspect_id, j) IN
            /\ name \in DOMAIN auditFiles
            /\ auditFiles[name].status = billJobs[j].status

(* C4: when a report worker has finished, an audit file holds the job's   *)
(* record with its terminal status.                                       *)
C4_ReportAuditOnTerminal ==
    \A j \in DOMAIN reportJobs :
        reportPc[j] = "finished" =>
            \E name \in DOMAIN auditFiles : auditFiles[name] = reportJobs[j]

(* C5: once a bill worker has finished, on any exit path, the job's       *)
(* temporary directory no longer exists.                                  *)
C5_JobDirDeleted ==
    \A j \in DOMAIN billJobs : billPc[j] = "finished" => ~jobDir[j].exists

(* one worker has finished in done and one in error *)
C5_Witness ==
    /\ \E j \in DOMAIN billJobs :
         billPc[j] = "finished" /\ billJobs[j].status = "done"
    /\ \E j \in DOMAIN billJobs :
         /\ billPc[j] = "finished"
         /\ billJobs[j].status = "error"
         /\ billJobs[j].detail = "exception"

IsFileResult(r) ==
    \/ DOMAIN r = {"filename", "error"}
    \/ DOMAIN r = {"filename", "parsed_count", "inserted_count"}

(* C6: when a bill job is done, results has exactly one entry per         *)
(* uploaded file, in upload order, each either the file's {filename,      *)
(* error} or its own parsed/inserted counts, also after a failing file.   *)
C6_OneResultPerFile ==
    \A j \in DOMAIN billJobs :
        billJobs[j].status = "done" =>
            LET r == billJobs[j].results IN
            /\ Len(r) = billJobs[j].total_files
            /\ \A i \in DOMAIN r :
                 /\ r[i].filename = UploadNames(billJobs[j].total_files)[i]
                 /\ IsFileResult(r[i])

(* a done job whose first file failed and whose second file was parsed *)
C6_Witness ==
    \E j \in DOMAIN billJobs :
        /\ billJobs[j].status = "done"
        /\ billJobs[j].total_files >= 2
        /\ "error" \in DOMAIN billJobs[j].results[1]
        /\ "inserted_count" \in DOMAIN billJobs[j].results[2]

(* C7: the inserted_count of an insert equals the number of distinct ids  *)
(* of the batch that were not persisted for the subject before, and the   *)
(* persisted id set afterwards is the prior set united with the batch's   *)
(* ids.                                                                   *)
C7_InsertedCountIsNewIds ==
    lastInsert # NoCall =>
        LET ids == Range(TxIdList(lastInsert.data)) IN
        /\ lastInsert.inserted_count = Cardinality(ids \ lastInsert.prior)
        /\ PersistedIds(txns, lastInsert.suspect_id) = lastInsert.prior \cup ids

(* C8: no two persisted transaction rows have the same (subject, id). *)
C8_UniquePerSubjectAndId == \A k \in DOMAIN txns : txns[k] <= 1

(* the resolved path of a member lies outside the destination directory *)
ResolvesOutside(dest, m) == ~IsPrefix(NormPath(<<>>, dest), TargetPath(dest, m))

(* C9: when any member of the archive, at any position, resolves outside  *)
(* the destination directory, extraction never starts writing: no file is *)
(* written and the run ends failed.                                       *)
C9_ZipSlipWritesNothing ==
    (\E i \in DOMAIN zip.members : ResolvesOutside(DestDir, zip.members[i])) =>
        /\ zip.written = {}
        /\ zip.pc \in {"checking", "failed"}

(* an archive whose first member is fine and whose second escapes has     *)
(* been refused                                                           *)
C9_Witness ==
    /\ zip.pc = "failed"
    /\ Len(zip.members) >= 2
    /\ ~ResolvesOutside(DestDir, zip.members[1])
    /\ ResolvesOutside(DestDir, zip.members[2])
    /\ zip.written = {}

(* C10: for a subject with a committed report version (a report job of    *)
(* the subject is done), the tree its stored report path refers to exists *)
(* on disk in every state, during and after any later report job.         *)
C10_StoredReportExists ==
    \A s \in suspects :
        (/\ reportPath[s] # NoPath
         /\ \E j \in DOMAIN reportJobs :
              reportJobs[j].suspect_id = s /\ reportJobs[j].status = "done")
        => reportPath[s] \in DOMAIN trees

(* strictly below the managed storage tree *)
StrictlyInside(path) ==
    /\ Len(path) > Len(REPORTS_DIR)
    /\ SubSeq(path, 1, Len(REPORTS_DIR)) = REPORTS_DIR

(* the per-subject/per-version directory a logged root lies in *)
ContainerOf(root) == SubSeq(root, 1, Len(REPORTS_DIR) + 2)

(* C11: after a retention sweep with threshold T, for every log entry     *)
(* whose root is inside the storage tree and existed on disk: when its    *)
(* last access is older than T its container directory is deleted and     *)
(* its entry is gone from the log; when its last access is within T its   *)
(* directory and its log entry are unchanged.                             *)
C11_SweepByAge ==
    sweep.pc = "done" =>
        \A i \in DOMAIN sweep.log :
            LET e == sweep.log[i]
                root == NormPath(<<>>, e.path)
            IN (StrictlyInside(root) /\ root \in sweep.disk0 /\ e.kind = "naive") =>
                IF Now - e.ts > sweep.max_age
                THEN /\ ContainerOf(root) \notin sweep.disk
                     /\ root \notin sweep.disk
                     /\ root \notin DOMAIN sweep.file
                ELSE /\ {d \in sweep.disk0 : IsPrefix(root, d)} \subseteq sweep.disk
                     /\ root \in DOMAIN sweep.file
                     /\ sweep.file[root].ts = e.ts

(* a finished sweep over a log with a stale root nested in its version    *)
(* directory and a root exactly T old, both on disk                       *)
C11_Witness ==
    /\ sweep.pc = "done"
    /\ \E i, k \in DOMAIN sweep.log :
         /\ sweep.log[i].path \in sweep.disk0
         /\ sweep.log[k].path \in sweep.disk0
         /\ Len(sweep.log[i].path) > Len(REPORTS_DIR) + 2
         /\ Now - sweep.log[i].ts > sweep.max_age
         /\ Now - sweep.log[k].ts = sweep.max_age
         /\ sweep.log[i].path \notin sweep.disk
         /\ sweep.log[k].path \in sweep.disk

(* C12: for any contents of the access log, a retention sweep never       *)
(* deletes a directory that is not strictly inside the managed storage    *)
(* tree.                                                                  *)
C12_SweepStaysInside ==
    \A d \in sweep.disk0 \ sweep.disk : StrictlyInside(d)

(* a finished sweep whose log held a stale entry for an existing          *)
(* directory outside the tree, and a stale entry inside that was deleted  *)
C12_Witness ==
    /\ sweep.pc = "done"
    /\ \E i \in DOMAIN sweep.log :
         /\ ~StrictlyInside(NormPath(<<>>, sweep.log[i].path))
         /\ NormPath(<<>>, sweep.log[i].path) \in sweep.disk
         /\ sweep.log[i].kind = "naive"
         /\ Now - sweep.log[i].ts > sweep.max_age
    /\ sweep.disk0 # sweep.disk

(* ids a client can ask for: the issued ones and one more *)
JobIds == 1..(MaxJobs + 1)

IssuedAndQueryable(reg, pc) ==
    \A j \in JobIds :
        IF j \in DOMAIN pc
        THEN /\ UploadStatus(reg, j) # JobNotFound
             /\ "status" \in DOMAIN UploadStatus(reg, j)
             /\ pc[j] = "created" => UploadStatus(reg, j).status = "queued"
        ELSE UploadStatus(reg, j) = JobNotFound

(* C13: every job id returned by an accepted bill or report upload is in  *)
(* its registry with status queued when the id is returned (the worker    *)
(* has not started), a status query for it succeeds in every later state, *)
(* and a status query for an id that was never issued yields JobNotFound. *)
C13_IssuedJobsQueryable ==
    /\ IssuedAndQueryable(billJobs, billPc)
    /\ IssuedAndQueryable(reportJobs, reportPc)

(* a bill job has finished, a report job was just accepted, and there is  *)
(* an id that no upload returned                                          *)
C13_Witness ==
    /\ \E j \in DOMAIN billPc : billPc[j] = "finished"
    /\ \E j \in DOMAIN reportPc : reportPc[j] = "created"
    /\ \E j \in JobIds : j \notin DOMAIN billPc /\ j \notin DOMAIN reportPc

(* a job that reaches its gate's acquire while the gate has a free permit *)
(* is admitted by that step, and the step moves only its own gate         *)
AdmittedOnFreeSlot(pc, pcNext, sem, semNext, other, otherNext) ==
    \A j \in DOMAIN pc :
        (pc[j] = "acquire" /\ pcNext[j] # "acquire" /\ sem > 0) =>
            /\ pcNext[j] = "admitted"
            /\ semNext = sem - 1
            /\ otherNext = other

(* C14: the two gates are independent: a job that asks for its gate while *)
(* that gate has a free slot is admitted in that step, whatever the other *)
(* gate holds (fully occupied, with jobs queued on it), and taking one    *)
(* gate's permit never changes the other gate.                            *)
C14_GatesIndependent ==
    [][/\ AdmittedOnFreeSlot(reportPc, reportPc', reportSem, reportSem', billSem, billSem')
       /\ AdmittedOnFreeSlot(billPc, billPc', billSem, billSem', reportSem, reportSem')]_vars

(* the bill gate is fully occupied with a further bill job queued on it,  *)
(* and a report job has just been admitted                                *)
C14_Witness ==
    /\ billSem = 0
    /\ \E j \in DOMAIN billPc : billPc[j] = "waiting" /\ billJobs[j].status = "queued"
    /\ \E j \in DOMAIN billJobs : billJobs[j].status = "processing"
    /\ \E j \in DOMAIN reportPc : reportPc[j] = "admitted"

(* C15: the parser dispatches on the file extension alone, compared       *)
(* case-insensitively: a PDF extension goes to the PDF parser, .xlsx/.xls *)
(* to the spreadsheet parser, and an image or any other extension is      *)
(* rejected with an error, no records, and the file never opened.         *)
C15_DispatchByExtension ==
    dispatch.pc # "idle" =>
        LET kind == dispatch.input.ext.kind IN
        /\ kind = "pdf" => dispatch.route = "pdf"
        /\ kind = "sheet" => dispatch.route = "sheet"
        /\ kind \in {"image", "other"} =>
             /\ dispatch.pc = "returned"
             /\ dispatch.outcome = "ValueError"
             /\ ~dispatch.opened

(* an upper-case PDF extension behind a directory and a stem with dots    *)
(* has reached the PDF parser                                             *)
C15_Witness ==
    /\ dispatch.pc = "returned"
    /\ dispatch.opened
    /\ dispatch.route = "pdf"
    /\ dispatch.input.ext.text # LowerStr(dispatch.input.ext.text)
    /\ dispatch.input.dir # <<>>
    /\ "." \in Range(dispatch.input.stem)

(* a row's cells joined after trimming and removing all whitespace *)
RowText(row) ==
    Concat([i \in DOMAIN row |-> SelectSeq(row[i], LAMBDA g : g \notin Whitespace)])

HasPairA(row) == Contains(RowText(row), TokenId) /\ Contains(RowText(row), TokenTime)

HasPairB(row) == Contains(RowText(row), TokenInOut) /\ Contains(RowText(row), TokenOrderId)

(* C17: for every row of a table, with cells trimmed and their internal   *)
(* whitespace removed: a row holding both the transaction-id and the      *)
(* transaction-time token, in any cell arrangement, makes the detector    *)
(* return platform A; a row holding both the income/expense and the       *)
(* transaction-order-id token makes it return platform B; when no row     *)
(* holds either pair the detector reports no header.  The first row with  *)
(* a pair decides, and pair A goes before pair B.                         *)
C17_HeaderSignature ==
    hdr.pc = "scanned" =>
        LET hits == {i \in DOMAIN hdr.table : HasPairA(hdr.table[i]) \/ HasPairB(hdr.table[i])} IN
        IF hits = {} THEN hdr.bill_type = "unknown" /\ hdr.header_index = 0
        ELSE LET first == CHOOSE i \in hits : \A k \in hits : i <= k IN
             /\ HasPairA(hdr.table[first]) => hdr.bill_type = "wechat"
             /\ (HasPairB(hdr.table[first]) /\ ~HasPairA(hdr.table[first]))
                  => hdr.bill_type = "alipay"

(* C16: once a header match in some table has locked the document's bill  *)
(* type, every later table without a header match, on the same or a later *)
(* page, is mapped with the locked type and the content heuristic is not  *)
(* asked; the content heuristic is asked only while no type is locked.    *)
C16_LockedTypeInherited ==
    LET l == pdf.last IN
    /\ (l.page > 0 /\ l.header = "unknown" /\ l.lock_before # "none") =>
           /\ l.mapped = l.lock_before
           /\ ~l.consulted
    /\ (l.page > 0 /\ l.consulted) => l.type_before = "none"

(* on a page after the one with the platform-B header, a table of         *)
(* platform-B rows without a header, which the content heuristic would    *)
(* call platform A, has been mapped as platform B                         *)
C16_Witness ==
    /\ pdf.last.page > 1
    /\ pdf.t = 2
    /\ pdf.last.header = "unknown"
    /\ pdf.last.lock_before = "alipay"
    /\ pdf.last.mapped = "alipay"
    /\ GuessPdfBillType(pdf.tables[1]) = "wechat"
    /\ pdf.added_by_tables > 0

(* C18: for every page of a document that is not the certificate type,   *)
(* the page's text is run through the text-block reconstructor if and     *)
(* only if the page had no tables or its tables added no record.          *)
C18_TextFallbackIff ==
    (pdf.pc = "page_done" /\ pdf.page > 0) =>
        (pdf.text_run <=> (pdf.tables = <<>> \/ pdf.added_by_tables = 0))

(* a later page whose tables added nothing had its text reconstructed,    *)
(* after an earlier page had added records                                *)
C18_Witness ==
    /\ pdf.pc = "page_done"
    /\ pdf.page > 1
    /\ pdf.before_page > 0
    /\ pdf.tables # <<>>
    /\ pdf.added_by_tables = 0
    /\ pdf.text_run
    /\ pdf.count > pdf.before_page

(* C19: every record the parser emits, on every extraction path (PDF      *)
(* table rows of platform A and B, spreadsheet rows, reconstructed text   *)
(* blocks), has a non-negative amount, also when the source cell or token *)
(* carries a minus sign.                                                  *)
C19_AmountNonNegative == amt.path # "none" => amt.amount >= 0

(* the fields of an input are those of a calendar date and a time of day *)
ValidFields(i) ==
    /\ i.yw = 4 /\ i.m \in 1..12 /\ i.d \in 1..DaysIn(i.m)
    /\ i.time # "none" => i.h \in 0..23 /\ i.mi \in 0..59 /\ i.sec \in 0..59

DatetimeOf(i) ==
    [year |-> 2021, month |-> i.m, day |-> i.d, hour |-> i.h, minute |-> i.mi,
     second |-> i.sec]

(* "YYYY-MM-DD HH:MM" and "YYYY.MM.DD HH:MM:SS" *)
DashMinuteShape(i) ==
    /\ i.kind = "date" /\ i.lead = "" /\ i.s1 = "-" /\ i.s2 = "-" /\ ~i.ri
    /\ i.gap = "sp" /\ i.time = "HM"
DotSecondShape(i) ==
    /\ i.kind = "date" /\ i.lead = "" /\ i.s1 = "." /\ i.s2 = "." /\ ~i.ri
    /\ i.gap = "sp" /\ i.time = "HMS"

(* the accepted shapes: a date with dash-like separators (dash, dot, the  *)
(* year and month glyphs) alone or followed after whitespace by a time,   *)
(* or a date with slashes followed after whitespace by a time             *)
DashLike(sep) == sep \in {"-", ".", "nian", "yue"}
AcceptedShape(i) ==
    /\ i.kind = "date"
    /\ \/ DashLike(i.s1) /\ DashLike(i.s2)
       \/ i.s1 = "/" /\ i.s2 = "/" /\ i.time # "none"
    /\ i.time # "none" => i.gap \in {"sp", "nl", "sp2", "sp3"}

(* C20: the datetime normalizer is total: for an absent value and for     *)
(* every string it returns a datetime or null and never raises; inputs of *)
(* the shapes "YYYY-MM-DD HH:MM" and "YYYY.MM.DD HH:MM:SS" with valid     *)
(* fields return that datetime; an input of none of the accepted shapes,  *)
(* or with an invalid field, returns null.                                *)
C20_DatetimeTotal ==
    dt.pc # "idle" =>
        /\ dt.pc = "returned"
        /\ dt.result = NullTime \/ dt.result = DatetimeOf(dt.input)
        /\ (DashMinuteShape(dt.input) \/ DotSecondShape(dt.input)) /\ ValidFields(dt.input)
               => dt.result = DatetimeOf(dt.input)
        /\ ~(AcceptedShape(dt.input) /\ ValidFields(dt.input)) => dt.result = NullTime
        /\ dt.input.kind = "none" => dt.result = NullTime

C20_Witness ==
    /\ dt.pc = "returned"
    /\ DashMinuteShape(dt.input) /\ ValidFields(dt.input)
    /\ dt.result = DatetimeOf(dt.input)


(* the worker holds a file: its index is published, its result is not yet *)
FileInHand(j) == billPc[j] \in {"parsing", "file_except", "file_finally"}

(* the job-level handler took over, or the worker is past it *)
PastFileLoop(j) == billPc[j] \in {"except", "audit", "finally", "deleting", "finished"}

ProgressFields(j) ==
    LET job == billJobs[j] IN
    /\ 0 <= job.current_file_index
    /\ job.current_file_index <= job.total_files
    /\ FileInHand(j) => Len(job.results) = job.current_file_index - 1
    /\ ~FileInHand(j) /\ ~PastFileLoop(j) => Len(job.results) = job.current_file_index
    /\ PastFileLoop(j) =>
          \/ Len(job.results) = job.current_file_index
          \/ /\ Len(job.results) = job.current_file_index - 1
             /\ job.status # "done"

ResultsOnlyAppended ==
    \A j \in DOMAIN billJobs : IsPrefix(billJobs[j].results, billJobs'[j].results)

(* C21: in every state of a bill job the polled progress fields satisfy   *)
(* 0 <= current_file_index <= total_files; results only grows by          *)
(* appending and its entries never change; length(results) is             *)
(* current_file_index between files and current_file_index - 1 while the  *)
(* current file is in hand (a job that the job-level handler ended while  *)
(* a file was in hand keeps the fields of that moment and is not done).   *)
C21_ProgressFields ==
    /\ [](\A j \in DOMAIN billJobs : ProgressFields(j))
    /\ [][ResultsOnlyAppended]_vars

(* the second file of a job is in hand and the first file's result shows *)
C21_Witness ==
    \E j \in DOMAIN billJobs :
        /\ billPc[j] = "parsing"
        /\ billJobs[j].current_file_index = 2
        /\ Len(billJobs[j].results) = 1


(* lines s .. s + u - 1 together hold an id, a clock time and money *)
HoldsAll(lines, s, u) ==
    /\ \E k \in s..(s + u - 1) : lines[k].id
    /\ \E k \in s..(s + u - 1) : lines[k].clock
    /\ \E k \in s..(s + u - 1) : lines[k].money

BlockWellFormed(k) ==
    LET b == txt.blocks[k]
        L == txt.lines
    IN
    /\ L[b.start].date /\ L[b.start].id
    /\ b.used \in 1..4
    /\ b.start + b.used - 1 <= Len(L)
    /\ \A u \in 1..(b.used - 1) :
         /\ ~(L[b.start + u].date /\ L[b.start + u].id)
         /\ ~HoldsAll(L, b.start, u)
    /\ \/ HoldsAll(L, b.start, b.used)
       \/ b.used = 4
       \/ b.start + b.used > Len(L)
       \/ L[b.start + b.used].date /\ L[b.start + b.used].id
    /\ k > 1 => txt.blocks[k - 1].start + txt.blocks[k - 1].used <= b.start

(* C22: in the line scan a block starts only at a line holding a date and *)
(* a run of 16 digits; it takes at most 3 following lines, never a line   *)
(* that itself holds a date and such a run, and no line after it holds an *)
(* id, a clock time and a monetary token; blocks do not overlap; and the  *)
(* scan returns for every input.                                          *)
C22_BlockScan ==
    /\ [](\A k \in DOMAIN txt.blocks : BlockWellFormed(k))
    /\ (txt.pc = "scan" ~> txt.pc = "returned")

(* a block of four lines followed by a second block *)
C22_Witness ==
    /\ txt.pc = "returned"
    /\ Len(txt.blocks) = 2
    /\ txt.blocks[1].used = 4


(* the digits of a cleaned id *)
DigitsOf(tid) == Len(SelectSeq(tid, LAMBDA ch : ch = "d"))

(* C23: for a platform-A sheet a data row whose id cell or time cell is   *)
(* empty is skipped, and a data row whose id has fewer than 5 digits is   *)
(* skipped, whatever character the id starts with.                        *)
C23_ShortIdSkipped ==
    sheet.pc = "row_done" /\ sheet.bill_type = "wechat" =>
        /\ IsNa(sheet.id) \/ sheet.time = "NaN" => ~sheet.emitted
        /\ DigitsOf(sheet.tid) < 5 => ~sheet.emitted


(* positions of a worker between its acquire and its release *)
BillHolding ==
    {"admitted", "query", "missing", "file_loop", "parsing", "file_except", "file_finally",
     "set_done", "except", "audit", "finally"}
ReportHolding ==
    {"admitted", "query", "missing", "extracting", "rm_archive", "commit", "rm_old_access",
     "rm_old_tree", "update_access", "set_done", "http_except", "except", "rm_work_dir",
     "finally"}

Holders(pc, holding) == Cardinality({j \in DOMAIN pc : pc[j] \in holding})

(* C24: gate permits are conserved: the free permits of each gate are its *)
(* width less the jobs between admission and release, so an admitted job  *)
(* gives its permit back exactly once on every path, a job never admitted *)
(* gives none back, the free permits never exceed the width, and they     *)
(* equal the width once all launched jobs have finished.                  *)
C24_PermitsConserved ==
    /\ billSem = BillGateWidth - Holders(billPc, BillHolding)
    /\ reportSem = ReportGateWidth - Holders(reportPc, ReportHolding)
    /\ billSem \in 0..BillGateWidth
    /\ reportSem \in 0..ReportGateWidth
    /\ (\A j \in DOMAIN billPc : billPc[j] = "finished") => billSem = BillGateWidth
    /\ (\A j \in DOMAIN reportPc : reportPc[j] = "finished") => reportSem = ReportGateWidth

(* all launched jobs have finished, over the done, the missing-subject    *)
(* and the exception path, and both gates are free again                  *)
C24_Witness ==
    /\ JobsAccepted >= 3
    /\ \A j \in DOMAIN billPc : billPc[j] = "finished"
    /\ \A j \in DOMAIN reportPc : reportPc[j] = "finished"
    /\ \E j \in DOMAIN billJobs : billJobs[j].status = "done"
    /\ \E j \in DOMAIN billJobs :
         billJobs[j].status = "error" /\ billJobs[j].detail = "Suspect not found"
    /\ \E j \in DOMAIN reportJobs :
         reportJobs[j].status = "error" /\ reportJobs[j].detail = "exception"
    /\ billSem = BillGateWidth /\ reportSem = ReportGateWidth


Terminal == {"done", "error"}
BeforeAdmission == {"created", "acquire", "waiting"}

(* C25: no job is stranded: under fair scheduling every accepted job, of  *)
(* either kind and for any number of jobs beyond the gate width, is       *)
(* eventually admitted and eventually reaches done or error.              *)
C25_NoJobStranded ==
    \A j \in 1..MaxJobs :
        /\ (j \in DOMAIN billJobs) ~>
               (/\ j \in DOMAIN billJobs
                /\ billPc[j] \notin BeforeAdmission
                /\ billJobs[j].status \in Terminal)
        /\ (j \in DOMAIN reportJobs) ~>
               (/\ j \in DOMAIN reportJobs
                /\ reportPc[j] \notin BeforeAdmission
                /\ reportJobs[j].status \in Terminal)

(* more bill jobs than the bill gate is wide, all of them finished *)
C25_Witness ==
    /\ Cardinality(DOMAIN billJobs) > BillGateWidth
    /\ \A j \in DOMAIN billJobs :
         billPc[j] = "finished" /\ billJobs[j].status \in Terminal


(* C26: with a bill gate of width 2 or more, bill jobs of one subject     *)
(* whose files hold the same transaction id, interleaved in any way,      *)
(* never both insert it: an insert step adds a row only for an id that    *)
(* has no row at that step, so no id ever has two rows.                   *)
C26_NoDoubleInsert ==
    /\ [](\A k \in DOMAIN txns : txns[k] <= 1)
    /\ [][\A k \in DOMAIN txns : txns'[k] > txns[k] => txns[k] = 0 /\ txns'[k] = 1]_vars

(* two jobs of one subject hold the gate together: the file of one has  *)
(* been inserted while the file of the other, with the same id, is being *)
(* parsed                                                                *)
C26_Witness ==
    \E j1, j2 \in DOMAIN billJobs :
        /\ j1 # j2
        /\ billJobs[j1].suspect_id = billJobs[j2].suspect_id
        /\ billPc[j1] = "file_finally" /\ billPc[j2] = "parsing"
        /\ billCtx[j1].results[1].inserted_count = 1
        /\ txns[<<billJobs[j1].suspect_id, "a">>] = 1


(* the per-version work directory of a report job *)
WorkDirOf(j) == REPORTS_DIR \o <<SubjectDir[reportJobs[j].suspect_id], VersionNames[j]>>

(* C27: a report job that ends in error, for any cause, leaves nothing of *)
(* the job in storage: when the worker has finished, its work directory,  *)
(* the uploaded archive included, has been deleted.                       *)
C27_ErrorLeavesNothing ==
    \A j \in DOMAIN reportJobs :
        reportPc[j] = "finished" /\ reportJobs[j].status = "error" =>
            \A d \in DOMAIN trees : ~IsPrefix(WorkDirOf(j), d)


(* the version directories on disk below the directory of subject s *)
VersionDirsOf(s) ==
    {d \in DOMAIN trees : IsPrefix(REPORTS_DIR \o <<SubjectDir[s]>>, d)}

(* C28: when two report jobs of one subject have run and both ended in    *)
(* done, then after both have finished exactly one version directory of   *)
(* the subject is on disk, the one its stored report path names; no       *)
(* superseded version is left behind.                                     *)
C28_OneVersionRemains ==
    \A j1, j2 \in DOMAIN reportJobs :
        LET s == reportJobs[j1].suspect_id IN
        /\ j1 # j2
        /\ DOMAIN reportJobs = {j1, j2}
        /\ reportJobs[j2].suspect_id = s
        /\ s \in suspects
        /\ reportPc[j1] = "finished" /\ reportPc[j2] = "finished"
        /\ reportJobs[j1].status = "done" /\ reportJobs[j2].status = "done"
        => VersionDirsOf(s) = {reportPath[s]}


(* the roots of the log file that a step of the sweep takes off the disk *)
RootsDeletedByStep ==
    {r \in DOMAIN sweep.file : r \in sweep.disk /\ r \notin sweep'.disk}

(* C29: a retention sweep that runs while report accesses are logged      *)
(* never deletes a report tree whose last access in the log, at the       *)
(* moment of the deletion, is within the threshold; and when both have    *)
(* finished every entry of the log names a root that is on disk.          *)
C29_SweepRespectsAccess ==
    /\ [][\A r \in RootsDeletedByStep :
             IsStale(sweep.file[r], Now - sweep.max_age)]_vars
    /\ [](sweep.pc = "done" => \A r \in DOMAIN sweep.file : r \in sweep.disk)


(* C30: after any sequence of report uploads that ended in done and of    *)
(* retention sweeps, the stored report path of a subject is unset or      *)
(* names a directory on disk: a sweep that deletes a subject's report     *)
(* tree does not leave the subject pointing at it.                        *)
C30_StoredPathSurvivesSweep ==
    (\A j \in DOMAIN reportJobs :
        reportPc[j] = "finished" /\ reportJobs[j].status = "done")
    => \A s \in suspects : reportPath[s] = NoPath \/ reportPath[s] \in DOMAIN trees

====
